---- MODULE Spec2Model ----
(***************************************************************************)
(* Idempotent time-series ingestion of market_data_backend_platform.       *)
(*                                                                         *)
(* State: the two relational tables (instruments, market_prices), the      *)
(* SQLAlchemy session of each execution path, and the position of each     *)
(* path inside IngestionService.  Two execution paths use the store at the *)
(* same time: "tick" runs run_ingestion_job (ingest_all_active over a      *)
(* fresh session) and "caller" invokes ingest_by_symbol / bulk_create on a *)
(* service bound to its own session.  The HTTP API patches and deletes     *)
(* instruments concurrently.                                               *)
(*                                                                         *)
(* Prices are integers: a provider value is counted in units of 10^-5, a   *)
(* stored value in units of 10^-4 (the transformer's precision).           *)
(* Timestamps are epoch seconds as the provider sends them.                *)
(***************************************************************************)
EXTENDS Integers, Sequences, FiniteSets, Bags, TLC

MaxTs == 2
MaxLen == 2

\* BackgroundScheduler instances that can be alive at once (the code keeps one)
MaxSchedulers == 2

\* Largest id the sequence of instruments.id gives out
MaxInstrumentId == 3

\* Largest limit and offset a price query is made with
MaxLimit == 2
MaxOffset == 1

Runners == {"tick", "caller"}
Symbols == {"AAPL", "BTC-USD"}
Timestamps == 1..MaxTs

\* OHLCV values a provider bar can carry: prices in 10^-5; the volume, a Python
\* int without width, by its digits in base 10^4 (1,000,000 here).
BarValues ==
    { [open |-> 18500005, high |-> 18600000, low |-> 18450004, close |-> 18550000,
       volume |-> <<100, 0>>] }

\* Largest of the small provider prices sampled, in 10^-5
MaxPrice == 25

\* Provider prices sampled when the values matter: every residue of the last
\* digit, ties above even and odd fourth decimals, and 185.00005
PriceSamples == (0..MaxPrice) \cup {18500005}

\* Volumes sampled: 0, 1,000,000, 2^31 - 1, 2^31, 2^32, 5,000,000,000,
\* 2^63 - 1 and 2^63
VolumeSamples ==
    { <<>>, <<100, 0>>, <<21, 4748, 3647>>, <<21, 4748, 3648>>, <<42, 9496, 7296>>,
      <<50, 0, 0>>, <<922, 3372, 368, 5477, 5807>>, <<922, 3372, 368, 5477, 5808>> }

ValueSamples ==
    { [open |-> p, high |-> p + 15, low |-> p \div 2, close |-> p + 5, volume |-> v] :
        p \in PriceSamples, v \in VolumeSamples }

VARIABLES
    instruments,        \* table instruments: set of rows
    market_prices,      \* table market_prices: bag of rows
    session,            \* per runner: "closed" | "active" | "inactive"
    pc,                 \* per runner: position in the code
    call,               \* per runner: locals and trace of the current/last call
    active_instruments, \* ingest_all_active: the snapshot returned by get_active
    cursor,             \* ingest_all_active: instruments of the snapshot consumed
    total_inserted,     \* ingest_all_active: accumulator
    failed,             \* ingest_all_active: accumulator
    outcomes,           \* trace: how each ingest_by_symbol call of the batch ended
    rows_before,        \* trace: rows of each instrument when the batch started
    summary,            \* last dict returned by ingest_all_active
    job_log,            \* last event logged by run_ingestion_job
    feed,               \* the OHLCV values the provider serves
    _scheduler,         \* scheduler module: the global instance, 0 for None
    schedulers,         \* BackgroundScheduler instances started and not shut down
    scheduler_log,      \* last event logged by start_scheduler / shutdown_scheduler
    settings,           \* core/config.py: the settings the application reads
    instruments_id_seq, \* last value the sequence of instruments.id has given
    requests,           \* per HTTP client: the request a handler is working on
    response            \* the last HTTP response sent

vars == <<instruments, market_prices, session, pc, call, active_instruments,
          cursor, total_inserted, failed, outcomes, rows_before, summary, job_log, feed,
          _scheduler, schedulers, scheduler_log, settings, instruments_id_seq,
          requests, response>>

batch_vars == <<active_instruments, cursor, total_inserted, failed, outcomes,
                rows_before, summary, job_log>>

api_vars == <<settings, instruments_id_seq, requests, response>>

env_vars == <<feed, _scheduler, schedulers, scheduler_log, api_vars>>

----
(* Sequences *)

RECURSIVE SeqsUpTo(_, _)
SeqsUpTo(S, n) ==
    IF n = 0 THEN {<<>>}
    ELSE LET shorter == SeqsUpTo(S, n - 1)
         IN shorter \cup {Append(s, x) : s \in {t \in shorter : Len(t) = n - 1}, x \in S}

Range(s) == {s[i] : i \in 1..Len(s)}

RECURSIVE FilterSeq(_, _)
FilterSeq(s, keep) ==
    IF s = <<>> THEN <<>>
    ELSE IF Head(s).timestamp \in keep
         THEN <<Head(s)>> \o FilterSeq(Tail(s), keep)
         ELSE FilterSeq(Tail(s), keep)

RECURSIVE SeqToBag(_)
SeqToBag(s) == IF s = <<>> THEN EmptyBag ELSE SetToBag({Head(s)}) (+) SeqToBag(Tail(s))

Distinct(s) == \A i, j \in 1..Len(s) : i # j => s[i].timestamp # s[j].timestamp

----
(* Integers wider than 32 bits: a number is the sequence of its digits in   *)
(* some base, most significant first and without leading zeros; <<>> is 0.  *)

\* Base of a Python int's digits, and of a database integer's 16-bit words
Digits == 10^4
Words == 2^16

RECURSIVE Strip(_)
Strip(n) == IF n # <<>> /\ Head(n) = 0 THEN Strip(Tail(n)) ELSE n

\* Long division of the base-b number n by d: quotient q (base b), remainder r
RECURSIVE DivMod(_, _, _, _, _)
DivMod(n, b, d, r, q) ==
    IF n = <<>> THEN [q |-> Strip(q), r |-> r]
    ELSE LET cur == r * b + Head(n)
         IN  DivMod(Tail(n), b, d, cur % d, Append(q, cur \div d))

\* The base-b number n written in base d
RECURSIVE Convert(_, _, _)
Convert(n, b, d) ==
    IF Strip(n) = <<>> THEN <<>>
    ELSE LET dm == DivMod(Strip(n), b, d, 0, <<>>)
         IN  Append(Convert(dm.q, b, d), dm.r)

----
(* Quote source client: etl/clients/yahoo.py *)

\* One provider answer, described by the parts of it the client looks at.
\*   transport : outcome of client.get + raise_for_status
\*   body      : what response.json() finds
\*   chart, result, meta, indicators, quote, timestamp : presence of each key
\*   bars      : the series; defect marks one malformed entry of a bar
WellFormed(bars) ==
    [transport |-> "ok", body |-> "object", chart |-> "object", result |-> "list",
     meta |-> "object", indicators |-> "object", quote |-> "list",
     timestamp |-> "list", bars |-> bars]

Bar(ts, v) ==
    [timestamp |-> ts, open |-> v.open, high |-> v.high, low |-> v.low,
     close |-> v.close, volume |-> v.volume, defect |-> "none"]

\* Every series of 1..MaxLen bars; all bars of one answer carry the same values.
Series ==
    { [i \in 1..Len(tss) |-> Bar(tss[i], v)] :
        tss \in SeqsUpTo(Timestamps, MaxLen) \ {<<>>}, v \in feed }

SampleBars == << Bar(1, CHOOSE v \in BarValues : v.volume = <<100, 0>>) >>

\* Answers of a failing provider: one fault each (transport, body, shape, value)
ProviderFailures ==
    LET ok == WellFormed(SampleBars)
        bad(d) == WellFormed(<< [SampleBars[1] EXCEPT !.defect = d] >>)
    IN  { [ok EXCEPT !.transport = "timeout"],
          [ok EXCEPT !.transport = "status"],
          [ok EXCEPT !.body = "not_json"],
          [ok EXCEPT !.body = "not_object"],
          [ok EXCEPT !.chart = "missing"],
          [ok EXCEPT !.chart = "null"],
          [ok EXCEPT !.result = "missing"],
          [ok EXCEPT !.result = "null"],
          [ok EXCEPT !.result = "empty"],
          [ok EXCEPT !.meta = "null"],
          [ok EXCEPT !.indicators = "missing"],
          [ok EXCEPT !.indicators = "null"],
          [ok EXCEPT !.quote = "missing"],
          [ok EXCEPT !.quote = "null"],
          [ok EXCEPT !.quote = "empty"],
          [ok EXCEPT !.timestamp = "missing"],
          [ok EXCEPT !.timestamp = "null"],
          [ok EXCEPT !.timestamp = "empty"],
          bad("ts_null"), bad("open_absent"), bad("open_string"),
          bad("volume_string") }

\* Answers of a working provider that the client reads as quotes: no meta
\* block, a null open (read as 0), a negative open
OddValues ==
    { [WellFormed(SampleBars) EXCEPT !.meta = "missing"],
      WellFormed(<< [SampleBars[1] EXCEPT !.defect = "open_null"] >>),
      WellFormed(<< [SampleBars[1] EXCEPT !.open = -100000] >>) }

Responses == {WellFormed(b) : b \in Series} \cup ProviderFailures \cup OddValues

NoResponse == WellFormed(<<>>)

NoQuotes == <<>>
Raise(e) == [tag |-> "raise", exc |-> e, quotes |-> NoQuotes]
NoData == [tag |-> "none", exc |-> "", quotes |-> NoQuotes]
Data(q) == [tag |-> "quotes", exc |-> "", quotes |-> q]

\* _make_request: an httpx.HTTPError (timeout, non-2xx) becomes the fallback
\* document {"chart": {"result": None, ...}}; response.json() is inside the
\* try block but its JSONDecodeError is no httpx.HTTPError.
_make_request(resp) ==
    IF resp.transport # "ok"
    THEN [tag |-> "data", exc |-> "",
          data |-> [resp EXCEPT !.body = "object", !.chart = "object", !.result = "null"]]
    ELSE IF resp.body = "not_json"
         THEN [tag |-> "raise", exc |-> "JSONDecodeError", data |-> resp]
         ELSE [tag |-> "data", exc |-> "", data |-> resp]

\* YahooQuoteResponse built for one bar, or how building it ends.
\* Order of evaluation: fromtimestamp, meta.get, open..close, volume.
ParseBar(data, bar) ==
    IF bar.defect = "ts_null" THEN "caught"                       \* TypeError
    ELSE IF data.meta = "null" THEN "AttributeError"
    ELSE IF data.indicators = "missing" \/ data.quote = "missing"
            \/ bar.defect = "open_absent" THEN "caught"           \* IndexError
    ELSE IF bar.defect = "open_string" THEN "InvalidOperation"
    ELSE IF bar.defect = "volume_string" THEN "ValueError"
    ELSE "ok"

QuoteOf(bar) ==
    [timestamp |-> bar.timestamp,
     open |-> IF bar.defect = "open_null" THEN 0 ELSE bar.open,
     high |-> bar.high, low |-> bar.low, close |-> bar.close,
     volume |-> bar.volume]

RECURSIVE ParseBars(_, _, _)
ParseBars(data, bars, responses) ==
    IF bars = <<>> THEN Data(responses)
    ELSE LET how == ParseBar(data, Head(bars))
         IN  IF how = "ok"
             THEN ParseBars(data, Tail(bars), Append(responses, QuoteOf(Head(bars))))
             ELSE IF how = "caught" THEN NoData ELSE Raise(how)

get_historical_prices(resp) ==
    LET req == _make_request(resp)
        data == req.data
    IN  IF req.tag = "raise" THEN Raise(req.exc)
        ELSE IF data.body = "not_object" THEN Raise("AttributeError")
        ELSE IF data.chart = "missing" THEN NoData
        ELSE IF data.chart = "null" THEN Raise("AttributeError")
        ELSE IF data.result # "list" THEN NoData
        ELSE IF data.indicators = "null" THEN Raise("AttributeError")
        ELSE IF data.indicators = "object" /\ data.quote \in {"null", "empty"}
             THEN NoData                                  \* TypeError, IndexError
        ELSE IF data.timestamp # "list" \/ data.bars = <<>> THEN NoData
        ELSE ParseBars(data, data.bars, <<>>)

----
(* Quote transformer: etl/transformers/yahoo_transformer.py *)

\* Variant: ROUND_HALF_EVEN
_round_HalfEven(value) ==
    LET q == value \div 10
        m == value % 10
    IN  IF m > 5 \/ (m = 5 /\ q % 2 = 1) THEN q + 1 ELSE q

\* value.quantize(Decimal("0.0001"), rounding=ROUND_HALF_UP): 10^-5 -> 10^-4 units
_round(value) ==
    IF value >= 0 THEN (value + 5) \div 10 ELSE 0 - ((5 - value) \div 10)

\* MarketPriceCreate accepts only ge=0 prices and volume (schemas/market_price.py)
Valid(schema) ==
    /\ schema.open >= 0 /\ schema.high >= 0 /\ schema.low >= 0 /\ schema.close >= 0
    /\ \A i \in 1..Len(schema.volume) : schema.volume[i] >= 0

transform(quote, instrument_id) ==
    [instrument_id |-> instrument_id, timestamp |-> quote.timestamp,
     open |-> _round(quote.open), high |-> _round(quote.high),
     low |-> _round(quote.low), close |-> _round(quote.close),
     volume |-> quote.volume]

transform_batch(quotes, instrument_id) ==
    [i \in 1..Len(quotes) |-> transform(quotes[i], instrument_id)]

----
(* Stores: repositories/instrument.py, repositories/market_price.py *)

InstrumentIds == {1, 2}

NoInstrument ==
    [id |-> 0, symbol |-> "", name |-> "", instrument_type |-> "", exchange |-> "",
     is_active |-> FALSE]

\* Variant: the query loses its filter and returns the first instrument
get_by_symbol_Unfiltered(symbol) ==
    IF instruments # {} THEN CHOOSE i \in instruments : TRUE ELSE NoInstrument

\* session.query(Instrument).filter(Instrument.symbol == symbol).first()
get_by_symbol(symbol) ==
    IF \E i \in instruments : i.symbol = symbol
    THEN CHOOSE i \in instruments : i.symbol = symbol
    ELSE NoInstrument

\* Variant: the query loses its filter on is_active
get_active_All == instruments

\* session.query(Instrument).filter(Instrument.is_active.is_(True)).all()
get_active == {i \in instruments : i.is_active}

Stored(instrument_id) ==
    {row.timestamp : row \in {x \in BagToSet(market_prices) :
                                  x.instrument_id = instrument_id}}

\* Variant: the existence check finds nothing
get_existing_timestamps_Empty(instrument_id, timestamps) == {}

\* Variant: the query loses its filter on instrument_id
get_existing_timestamps_AnyInstrument(instrument_id, timestamps) ==
    IF timestamps = <<>> THEN {}
    ELSE {x.timestamp : x \in BagToSet(market_prices)} \cap Range(timestamps)

\* if not timestamps: return set(): no query is made for an empty list
IssuesQuery(timestamps) == timestamps # <<>>

get_existing_timestamps(instrument_id, timestamps) ==
    IF timestamps = <<>> THEN {}
    ELSE {t \in Stored(instrument_id) : t \in Range(timestamps)}

TimestampsOf(prices) == [i \in 1..Len(prices) |-> prices[i].timestamp]

\* Variant: the batch is handed on unfiltered
NewPrices_Unfiltered(prices, existing) == prices

\* new_prices = [p for p in prices if p.timestamp not in existing]
NewPrices(prices, existing) == FilterSeq(prices, Range(TimestampsOf(prices)) \ existing)

SameKey(a, b) == a.instrument_id = b.instrument_id /\ a.timestamp = b.timestamp

\* Variant: a table without uq_instrument_timestamp
IntegrityError_ForeignKeyOnly(rows) ==
    \E i \in 1..Len(rows) : \A inst \in instruments : inst.id # rows[i].instrument_id

\* Variant: a table whose instrument_id is no foreign key
IntegrityError_UniqueOnly(rows) ==
    \/ \E i, j \in 1..Len(rows) : i # j /\ SameKey(rows[i], rows[j])
    \/ \E i \in 1..Len(rows) : \E x \in BagToSet(market_prices) : SameKey(rows[i], x)

\* What the database refuses when the rows are flushed: uq_instrument_timestamp
\* inside the rows or against the table, and the foreign key on instruments.id.
IntegrityError(rows) ==
    \/ \E i, j \in 1..Len(rows) : i # j /\ SameKey(rows[i], rows[j])
    \/ \E i \in 1..Len(rows) : \E x \in BagToSet(market_prices) : SameKey(rows[i], x)
    \/ \E i \in 1..Len(rows) : \A inst \in instruments : inst.id # rows[i].instrument_id

\* Variant: the volume column before the migration, INTEGER
ColumnBits_Integer == 32

\* Width of market_prices.volume after upgrade(): BIGINT
ColumnBits == 64

\* The integer the driver sends, as the database reads it
ToColumn(volume) == Convert(volume, Digits, Words)

\* The column value as the driver hands it back: a Python int
FromColumn(words) == Convert(words, Words, Digits)

\* The database refuses a value beyond the signed range of the column
NumericValueOutOfRange(volume) ==
    LET words == ToColumn(volume)
        n == ColumnBits \div 16
    IN  Len(words) > n \/ (Len(words) = n /\ words[1] >= 2^15)

DataError(rows) == \E i \in 1..Len(rows) : NumericValueOutOfRange(rows[i].volume)

\* Variant: every row is committed on its own, up to the first one refused
Flushed_RowByRow(rows) ==
    LET ks == {k \in 0..Len(rows) : /\ ~DataError(SubSeq(rows, 1, k))
                                    /\ ~IntegrityError(SubSeq(rows, 1, k))}
    IN  SubSeq(rows, 1, CHOOSE k \in ks : \A j \in ks : j <= k)

\* session.add_all(prices); session.commit(): one transaction, so the rows a
\* commit leaves in the table are all of them, or none when one is refused
Flushed(rows) == IF DataError(rows) \/ IntegrityError(rows) THEN <<>> ELSE rows

\* The table row written for a MarketPrice object, and the object read back
Row(price) == [price EXCEPT !.volume = ToColumn(@)]

Loaded(row) == [row EXCEPT !.volume = FromColumn(@)]

Rows(prices) == [i \in 1..Len(prices) |-> Row(prices[i])]

RowCount(instrument_id) ==
    LET rows == {x \in BagToSet(market_prices) : x.instrument_id = instrument_id}
        RECURSIVE Sum(_)
        Sum(S) == IF S = {} THEN 0
                  ELSE LET x == CHOOSE y \in S : TRUE
                       IN  CopiesIn(x, market_prices) + Sum(S \ {x})
    IN  Sum(rows)

----
(* Locals and trace of one call of ingest_by_symbol / bulk_create *)

\* What a repeated call remembers of the call it repeats
NoFirst ==
    [outcome |-> "none", result |-> 0, rows_after |-> 0, existing |-> 0,
     clean |-> FALSE]

NoCall ==
    [kind |-> "none", symbol |-> "", instrument_id |-> 0,
     response |-> NoResponse, quotes |-> <<>>,
     prices |-> <<>>, stored |-> {}, existing |-> {}, new_prices |-> <<>>,
     refreshed |-> <<>>, candidates |-> <<>>, queried |-> FALSE,
     fetched |-> FALSE, transformed |-> FALSE, insert_called |-> FALSE,
     outcome |-> "none", exc |-> "", result |-> 0, rows_after |-> 0,
     session_ok |-> TRUE, undisturbed |-> TRUE,
     raced |-> FALSE, before_both |-> {}, rival_ts |-> {}, rival_done |-> FALSE,
     replay |-> FALSE, answer |-> <<>>, first |-> NoFirst]

\* No batch has returned since the last one started
NoSummary == [total_instruments |-> -1, total_inserted |-> 0, failed |-> 0]

Other(r) == CHOOSE o \in Runners : o # r

Running(r) == pc[r] \in {"lookup", "check", "write", "refresh"}

Finished(r) == call[r].kind # "none" /\ call[r].outcome # "none"

----
(* HTTP requests and responses: what a client sends and what it gets back *)

Clients == {"a", "b"}

\* The Authorization header of a request, by what the gate looks at
\*   bearer     : the header is there and its scheme is Bearer
\*   wellformed : the credential splits into the three segments of a JWT
\*   key        : the key its signature was made with
\*   expired    : its exp claim lies in the past
\*   sub        : its sub claim, "" when the payload has none
NoAuthorization ==
    [bearer |-> FALSE, wellformed |-> FALSE, key |-> "", expired |-> FALSE, sub |-> ""]

\* JSON null, and an attribute set to None
None == "None"

NoArgs ==
    [instrument_id |-> 0, payload |-> <<>>, start_date |-> 0, end_date |-> 0,
     limit |-> 0, offset |-> 0]

NoBody == [instruments |-> {}, prices |-> <<>>, access_token |-> NoAuthorization]

NoRequest == [route |-> "none", token |-> NoAuthorization, args |-> NoArgs]

\* No response is on its way to a client
NoReply ==
    [client |-> "", route |-> "none", token |-> NoAuthorization, args |-> NoArgs,
     status |-> 0, body |-> NoBody]

----
(* Initial state: seeded instruments, no prices, nothing running *)

Seed(id) ==
    IF id = 1
    THEN [id |-> 1, symbol |-> "AAPL", name |-> "Apple Inc.",
          instrument_type |-> "stock", exchange |-> "NASDAQ", is_active |-> TRUE]
    ELSE [id |-> id, symbol |-> "BTC-USD", name |-> "Bitcoin USD",
          instrument_type |-> "crypto", exchange |-> "CRYPTO", is_active |-> TRUE]

InitSettings(ids, values, table, scheduler_enabled) ==
    /\ instruments = {Seed(id) : id \in ids}
    /\ market_prices = table
    /\ session = [r \in Runners |-> IF r = "caller" THEN "active" ELSE "closed"]
    /\ pc = [r \in Runners |-> "idle"]
    /\ call = [r \in Runners |-> NoCall]
    /\ active_instruments = <<>>
    /\ cursor = 0
    /\ total_inserted = 0
    /\ failed = 0
    /\ outcomes = <<>>
    /\ rows_before = [id \in 1..MaxInstrumentId |-> 0]
    /\ summary = NoSummary
    /\ job_log = "none"
    /\ feed = values
    /\ _scheduler = 0
    /\ schedulers = {}
    /\ scheduler_log = "none"
    /\ settings = [scheduler_enabled |-> scheduler_enabled]
    /\ instruments_id_seq = Cardinality(ids)
    /\ requests = [c \in Clients |-> NoRequest]
    /\ response = NoReply

\* scheduler_enabled: bool = Field(default=True)
InitStore(ids, values, table) == InitSettings(ids, values, table, TRUE)

InitFeed(ids, values) == InitStore(ids, values, EmptyBag)

InitWith(ids) == InitFeed(ids, BarValues)

\* A second bar value, so that two records of one key can differ
OtherBarValues ==
    { [open |-> 18700000, high |-> 18800004, low |-> 18650000, close |-> 18750005,
       volume |-> <<250, 0>>] }

\* Timestamps of the rows a table can hold when it is queried
StoredDates == 1..(MaxTs + 1)

\* The table as earlier ingestion runs left it: one row for each of the keys
Table(keys) ==
    LET rows == { Row(transform(QuoteOf(Bar(k[2], v)), k[1])) :
                     k \in keys, v \in BarValues }
    IN  [x \in rows |-> 1]

\* Both instruments and any table that satisfies uq_instrument_timestamp
InitPrices ==
    \E keys \in SUBSET (InstrumentIds \X StoredDates) :
        InitStore(InstrumentIds, BarValues, Table(keys))

\* One instrument and any prices of it
InitApi ==
    \E keys \in SUBSET ({1} \X Timestamps) : InitStore({1}, BarValues, Table(keys))

\* The same for a deployment with or without the scheduler
InitApp ==
    \E keys \in SUBSET ({1} \X Timestamps), scheduler_enabled \in BOOLEAN :
        InitSettings({1}, BarValues, Table(keys), scheduler_enabled)

\* Both instruments and a provider that serves either value
InitRepository == InitFeed(InstrumentIds, BarValues \cup OtherBarValues)

\* One instrument and a provider that serves one of the sampled values
InitValues == \E v \in ValueSamples : InitFeed({1}, {v})

Init == InitWith(InstrumentIds)

InitOne == InitWith({1})

----
(* Ingestion orchestrator: etl/services/ingestion.py *)

\* Variant: a call that returns 0 is counted as failed
Accumulate_ZeroIsFailure(outcome, inserted) ==
    [total_inserted |-> IF outcome = "raised" THEN total_inserted
                        ELSE total_inserted + inserted,
     failed |-> IF outcome = "raised" \/ inserted = 0 THEN failed + 1 ELSE failed]

\* try: total_inserted += inserted / except Exception: failed += 1
Accumulate(outcome, inserted) ==
    [total_inserted |-> IF outcome = "raised" THEN total_inserted
                        ELSE total_inserted + inserted,
     failed |-> IF outcome = "raised" THEN failed + 1 ELSE failed]

\* Variant: the tick takes the session of the HTTP handler
SessionLocal_Shared == session["caller"]

\* SessionLocal(): a new session, usable, with no connection yet
SessionLocal == "active"

\* Variant: run_ingestion_job without its except clause
JobEnd_Uncaught(raised) ==
    IF raised THEN "scheduler_job_started" ELSE "scheduler_job_complete"

\* try: ... logger.info("scheduler_job_complete")
\* except Exception: logger.error("scheduler_job_failed")
JobEnd(raised) ==
    IF raised THEN "scheduler_job_failed" ELSE "scheduler_job_complete"

\* The call of runner r ends (returns result, or raises exc); rec is its record
\* and sess the state its session is left in.  The caller gets the outcome
\* directly.  In the batch the loop's try/except takes it; the handler logs
\* instrument.symbol before it counts the failure, and the rollback of a failed
\* flush expires the instruments the session loaded: reading the symbol then
\* either finds the attribute still loaded, or must reload it on the unusable
\* session and raises out of ingest_all_active into run_ingestion_job, which
\* logs the failure and closes the session.
EndCallWith(r, rec, outcome, exc, result, sess, rows) ==
    LET o == Other(r)
        done == [rec EXCEPT !.outcome = outcome, !.exc = exc, !.result = result,
                            !.rows_after = RowCount(rec.instrument_id)]
        acc == Accumulate(outcome, result)
        entry == [symbol |-> rec.symbol, outcome |-> outcome, exc |-> exc,
                  result |-> result, instrument_id |-> rec.instrument_id,
                  quotes |-> Len(rec.quotes)]
    IN  /\ call' = [call EXCEPT ![r] = done,
                                ![o] = IF @.raced THEN [@ EXCEPT !.rival_done = TRUE] ELSE @]
        /\ IF r = "tick"
           THEN /\ outcomes' = Append(outcomes, entry)
                /\ \/ /\ pc' = [pc EXCEPT ![r] = "loop"]
                      /\ session' = [session EXCEPT ![r] = sess]
                      /\ total_inserted' = acc.total_inserted
                      /\ failed' = acc.failed
                      /\ UNCHANGED job_log
                   \/ /\ outcome = "raised" /\ sess = "inactive"
                      /\ pc' = [pc EXCEPT ![r] = "idle"]
                      /\ session' = [session EXCEPT ![r] = "closed"]
                      /\ job_log' = JobEnd(TRUE)
                      /\ UNCHANGED <<total_inserted, failed>>
                /\ UNCHANGED <<active_instruments, cursor, rows_before, summary>>
           ELSE /\ pc' = [pc EXCEPT ![r] = "idle"]
                /\ session' = [session EXCEPT ![r] = sess]
                /\ UNCHANGED batch_vars
        /\ market_prices' = market_prices (+) SeqToBag(rows)
        /\ UNCHANGED <<instruments, env_vars>>

\* The same for a call that ends without writing
EndCall(r, rec, outcome, exc, result, sess) ==
    EndCallWith(r, rec, outcome, exc, result, sess, <<>>)

NewCall(r, kind, symbol) ==
    [NoCall EXCEPT !.kind = kind, !.symbol = symbol,
                   !.session_ok = (session[r] = "active")]

\* The provider answers a call can get: any, or, for a call that repeats the
\* one before it with the same provider answer, those giving the same quotes.
Answers(rec) ==
    IF rec.replay
    THEN {resp \in Responses : get_historical_prices(resp) = Data(rec.answer)}
    ELSE Responses

\* Variant: the test is for an empty list instead of None
IsNone_EmptyList(got) == got.tag = "quotes" /\ got.quotes = <<>>

\* if quotes is None: return 0
IsNone(got) == got.tag = "none"

\* ingest_by_symbol, steps 1-4: instrument lookup, provider fetch, transform.
\* The lookup is the only access to shared state; the fetch and the transform
\* that follow it in the same call are local.
IngestLookup(r) ==
    /\ pc[r] = "lookup"
    /\ LET rec == call[r]
           instrument == get_by_symbol(rec.symbol)
       IN  IF session[r] # "active"
           THEN EndCall(r, rec, "raised", "PendingRollbackError", 0, session[r])
           ELSE IF instrument = NoInstrument
           THEN EndCall(r, rec, "not_found", "", 0, session[r])
           ELSE \E resp \in Answers(rec) :
                LET got == get_historical_prices(resp)
                    fetched == [rec EXCEPT !.instrument_id = instrument.id,
                                           !.response = resp, !.fetched = TRUE]
                    schemas == transform_batch(got.quotes, instrument.id)
                    transformed == [fetched EXCEPT !.quotes = got.quotes,
                                                   !.transformed = TRUE]
                IN  IF got.tag = "raise"
                    THEN EndCall(r, fetched, "raised", got.exc, 0, session[r])
                    ELSE IF IsNone(got)
                    THEN EndCall(r, fetched, "no_data", "", 0, session[r])
                    ELSE IF \E i \in 1..Len(schemas) : ~Valid(schemas[i])
                    THEN EndCall(r, transformed, "raised", "ValidationError", 0,
                                 session[r])
                    ELSE /\ call' = [call EXCEPT ![r] =
                                        [transformed EXCEPT !.prices = schemas]]
                         /\ pc' = [pc EXCEPT ![r] = "check"]
                         /\ UNCHANGED <<instruments, market_prices, session,
                                        batch_vars, env_vars>>

\* Two calls race when this one reads the existing timestamps of an instrument
\* while the other one has read them and not yet committed.
Races(r, rec) ==
    LET o == Other(r)
    IN  /\ pc[o] = "write"
        /\ call[o].kind = "ingest_by_symbol"
        /\ call[o].instrument_id = rec.instrument_id
        /\ Distinct(call[o].prices) /\ Distinct(rec.prices)

\* bulk_create_new up to the filter: existence check and new_prices.
BulkCreateNewCheck(r) ==
    /\ pc[r] = "check"
    /\ LET o == Other(r)
           rec == [call[r] EXCEPT !.insert_called = TRUE]
           prices == rec.prices
           instrument_id == prices[1].instrument_id
           timestamps == TimestampsOf(prices)
           existing == get_existing_timestamps(instrument_id, timestamps)
           new_prices == NewPrices(prices, existing)
           checked == [rec EXCEPT !.existing = existing, !.new_prices = new_prices,
                                  !.stored = Stored(instrument_id)]
       IN  IF prices = <<>>
           THEN EndCall(r, rec, "nothing_new", "", 0, session[r])
           ELSE IF new_prices = <<>>
           THEN EndCall(r, checked, "nothing_new", "", 0, session[r])
           ELSE /\ call' =
                     IF Races(r, rec)
                     THEN [call EXCEPT
                             ![r] = [checked EXCEPT !.raced = TRUE,
                                        !.before_both = call[o].stored,
                                        !.rival_ts = Range(TimestampsOf(call[o].prices))],
                             ![o] = [@ EXCEPT !.raced = TRUE,
                                        !.before_both = call[o].stored,
                                        !.rival_ts = Range(timestamps),
                                        !.rival_done = FALSE]]
                     ELSE [call EXCEPT ![r] = checked]
                /\ pc' = [pc EXCEPT ![r] = "write"]
                /\ UNCHANGED <<instruments, market_prices, session, batch_vars, env_vars>>

\* bulk_create: session.add_all(prices); session.commit().  A refused flush
\* rolls the transaction back and leaves the session inactive: nothing in the
\* code calls session.rollback().
BulkCreateCommit(r) ==
    /\ pc[r] = "write"
    /\ LET rec == call[r]
           o == Other(r)
       IN  IF session[r] # "active"
           THEN EndCall(r, rec, "raised", "PendingRollbackError", 0, session[r])
           ELSE IF DataError(rec.new_prices)
           THEN EndCallWith(r, rec, "raised", "DataError", 0, "inactive",
                            Rows(Flushed(rec.new_prices)))
           ELSE IF IntegrityError(rec.new_prices)
           THEN EndCallWith(r, rec, "raised", "IntegrityError", 0, "inactive",
                            Rows(Flushed(rec.new_prices)))
           ELSE /\ market_prices' = market_prices (+)
                                       SeqToBag(Rows(Flushed(rec.new_prices)))
                /\ call' = [call EXCEPT ![o] = [@ EXCEPT !.undisturbed = FALSE]]
                /\ pc' = [pc EXCEPT ![r] = "refresh"]
                /\ UNCHANGED <<instruments, session, batch_vars, env_vars>>

\* bulk_create: session.refresh(price) for each price, then return prices;
\* ingest_by_symbol returns len(inserted_prices).
BulkCreateRefresh(r) ==
    /\ pc[r] = "refresh"
    /\ LET rec == call[r]
           refreshed == [i \in 1..Len(rec.new_prices) |-> Loaded(Row(rec.new_prices[i]))]
       IN  IF \A i \in 1..Len(rec.new_prices) :
                 BagIn(Row(rec.new_prices[i]), market_prices)
           THEN EndCall(r, [rec EXCEPT !.refreshed = refreshed], "persisted", "",
                        Len(refreshed), session[r])
           ELSE EndCall(r, rec, "raised", "InvalidRequestError", 0, session[r])

----
(* Scheduler tick: scheduler/__init__.py run_ingestion_job, and the batch *)

Orderings(S) ==
    {s \in SeqsUpTo(S, Cardinality(S)) : Len(s) = Cardinality(S) /\ Range(s) = S}

\* SessionLocal(), IngestionService(...), ingest_all_active up to the loop:
\* the snapshot of the active instruments, in the order the query returns them.
RunIngestionJob ==
    /\ pc["tick"] = "idle"
    /\ \E snapshot \in Orderings(get_active) :
          active_instruments' = [i \in 1..Len(snapshot) |->
                                   [id |-> snapshot[i].id, symbol |-> snapshot[i].symbol]]
    /\ session' = [session EXCEPT !["tick"] = SessionLocal]
    /\ cursor' = 0
    /\ total_inserted' = 0
    /\ failed' = 0
    /\ outcomes' = <<>>
    /\ rows_before' = [id \in 1..MaxInstrumentId |-> RowCount(id)]
    /\ pc' = [pc EXCEPT !["tick"] = "loop"]
    /\ summary' = NoSummary
    /\ call' = [call EXCEPT !["tick"] = NoCall]
    /\ job_log' = "scheduler_job_started"
    /\ UNCHANGED <<instruments, market_prices, env_vars>>

\* A tick while the database cannot be reached.  SessionLocal() connects
\* lazily, so the session is made; the first query, get_active, raises inside
\* the try of run_ingestion_job, which logs the failure and closes the session.
RunIngestionJobRaises ==
    /\ pc["tick"] = "idle"
    /\ active_instruments' = <<>>
    /\ cursor' = 0
    /\ total_inserted' = 0
    /\ failed' = 0
    /\ outcomes' = <<>>
    /\ rows_before' = [id \in 1..MaxInstrumentId |-> RowCount(id)]
    /\ summary' = NoSummary
    /\ call' = [call EXCEPT !["tick"] = NoCall]
    /\ job_log' = JobEnd(TRUE)
    /\ session' = [session EXCEPT !["tick"] = "closed"]
    /\ UNCHANGED <<instruments, market_prices, pc, env_vars>>

RECURSIVE StillActive(_)
StillActive(s) ==
    IF s = <<>> THEN <<>>
    ELSE IF \E i \in get_active : i.id = Head(s).id
         THEN <<Head(s)>> \o StillActive(Tail(s))
         ELSE StillActive(Tail(s))

\* Variant: the loop asks again which instruments are active
Pending_Requeried ==
    StillActive(SubSeq(active_instruments, cursor + 1, Len(active_instruments)))

\* What the for loop has still to visit: the rest of the list read before it
Pending == SubSeq(active_instruments, cursor + 1, Len(active_instruments))

\* for instrument in active_instruments: ... ; after the loop the summary is
\* returned and run_ingestion_job closes the session.
IngestAllActiveLoop ==
    /\ pc["tick"] = "loop"
    /\ IF Pending # <<>>
       THEN /\ cursor' = cursor + 1
            /\ call' = [call EXCEPT !["tick"] =
                          NewCall("tick", "ingest_by_symbol", Head(Pending).symbol)]
            /\ pc' = [pc EXCEPT !["tick"] = "lookup"]
            /\ UNCHANGED <<session, summary, job_log>>
       ELSE /\ summary' = [total_instruments |-> Len(active_instruments),
                           total_inserted |-> total_inserted,
                           failed |-> failed]
            /\ session' = [session EXCEPT !["tick"] = "closed"]
            /\ pc' = [pc EXCEPT !["tick"] = "idle"]
            /\ job_log' = JobEnd(FALSE)
            /\ UNCHANGED <<call, cursor>>
    /\ UNCHANGED <<instruments, market_prices, active_instruments,
                   total_inserted, failed, outcomes, rows_before, env_vars>>

----
(* A caller of the service on its own session *)

CallIngestBySymbol(symbol) ==
    /\ pc["caller"] = "idle"
    /\ call' = [call EXCEPT !["caller"] = NewCall("caller", "ingest_by_symbol", symbol)]
    /\ pc' = [pc EXCEPT !["caller"] = "lookup"]
    /\ UNCHANGED <<instruments, market_prices, session, batch_vars, env_vars>>

\* The same call once more: same symbol, and the provider gives the same answer
CallIngestBySymbolAgain ==
    /\ pc["caller"] = "idle"
    /\ LET last == call["caller"]
       IN  /\ last.kind = "ingest_by_symbol"
           /\ last.quotes # <<>>
           /\ call' = [call EXCEPT !["caller"] =
                         [NewCall("caller", "ingest_by_symbol", last.symbol) EXCEPT
                            !.replay = TRUE, !.answer = last.quotes,
                            !.first = [outcome |-> last.outcome,
                                       result |-> last.result,
                                       rows_after |-> last.rows_after,
                                       existing |-> Cardinality(last.existing),
                                       clean |-> /\ last.session_ok
                                                 /\ last.undisturbed
                                                 /\ Distinct(last.quotes)]]]
    /\ pc' = [pc EXCEPT !["caller"] = "lookup"]
    /\ UNCHANGED <<instruments, market_prices, session, batch_vars, env_vars>>

\* MarketPriceRepository.get_existing_timestamps called on the caller's
\* session; a query on a session left unusable by a failed commit raises
CallGetExistingTimestamps(instrument_id, timestamps) ==
    /\ pc["caller"] = "idle"
    /\ LET rec == [NewCall("caller", "get_existing_timestamps", "") EXCEPT
                      !.instrument_id = instrument_id,
                      !.candidates = timestamps,
                      !.queried = IssuesQuery(timestamps)]
       IN  call' = [call EXCEPT !["caller"] =
                      IF rec.queried /\ session["caller"] # "active"
                      THEN [rec EXCEPT !.outcome = "raised",
                                       !.exc = "PendingRollbackError"]
                      ELSE [rec EXCEPT !.outcome = "returned",
                                       !.existing = get_existing_timestamps(
                                                        instrument_id, timestamps)]]
    /\ UNCHANGED <<instruments, market_prices, session, pc, batch_vars, env_vars>>

DirectRows ==
    {transform_batch([i \in 1..Len(bars) |-> QuoteOf(bars[i])], id) :
        bars \in Series, id \in InstrumentIds}

\* MarketPriceRepository.bulk_create called with rows of the caller's choice
CallBulkCreate(rows) ==
    /\ pc["caller"] = "idle"
    /\ call' = [call EXCEPT !["caller"] =
                  [NewCall("caller", "bulk_create", "") EXCEPT
                      !.instrument_id = rows[1].instrument_id,
                      !.prices = rows, !.new_prices = rows]]
    /\ pc' = [pc EXCEPT !["caller"] = "write"]
    /\ UNCHANGED <<instruments, market_prices, session, batch_vars, env_vars>>

\* Records a caller can hand to the repository in one list: each of any
\* instrument, any timestamp and any of the values served
PriceBatches ==
    { [i \in 1..Len(ks) |-> transform(QuoteOf(Bar(ks[i][2], ks[i][3])), ks[i][1])] :
        ks \in SeqsUpTo(InstrumentIds \X Timestamps \X feed, MaxLen) }

\* MarketPriceRepository.bulk_create_new called with a list of the caller's choice
CallBulkCreateNew(prices) ==
    /\ pc["caller"] = "idle"
    /\ call' = [call EXCEPT !["caller"] =
                  [NewCall("caller", "bulk_create_new", "") EXCEPT
                      !.instrument_id = IF prices = <<>> THEN 0
                                        ELSE prices[1].instrument_id,
                      !.prices = prices]]
    /\ pc' = [pc EXCEPT !["caller"] = "check"]
    /\ UNCHANGED <<instruments, market_prices, session, batch_vars, env_vars>>

\* The caller ends a failed unit of work: session.rollback() / a new session
CallerRollback ==
    /\ pc["caller"] = "idle"
    /\ session["caller"] = "inactive"
    /\ session' = [session EXCEPT !["caller"] = "active"]
    /\ UNCHANGED <<instruments, market_prices, pc, call, batch_vars, env_vars>>

----
(* Scheduler life cycle: scheduler/__init__.py start_scheduler, shutdown_scheduler *)

\* settings.ingestion_interval_minutes, minutes
ingestion_interval_minutes == 5

\* The interval_minutes a caller passes; 0 stands for None
Intervals == {0, 15}

\* Variant: the guard on the global is gone
AlreadyRunning_Never == FALSE

\* if _scheduler is not None
AlreadyRunning == _scheduler # 0

\* BackgroundScheduler(): a new instance, told from the ones alive by its id
BackgroundScheduler ==
    [id |-> CHOOSE n \in 1..MaxSchedulers :
                /\ \A s \in schedulers : s.id # n
                /\ \A m \in 1..(n - 1) : \E s \in schedulers : s.id = m,
     jobs |-> {}]

\* add_job(..., id=..., replace_existing=True)
add_job(scheduler, job) ==
    [scheduler EXCEPT !.jobs = {j \in @ : j.id # job.id} \cup {job}]

start_scheduler(interval_minutes) ==
    /\ IF AlreadyRunning
       THEN /\ scheduler_log' = "scheduler_already_running"
            /\ UNCHANGED <<_scheduler, schedulers>>
       ELSE LET interval == IF interval_minutes # 0 THEN interval_minutes
                            ELSE ingestion_interval_minutes
                started == add_job(BackgroundScheduler,
                                   [id |-> "ingestion_job", minutes |-> interval])
            IN  /\ Cardinality(schedulers) < MaxSchedulers
                /\ _scheduler' = started.id
                /\ schedulers' = schedulers \cup {started}
                /\ scheduler_log' = "scheduler_started"
    /\ UNCHANGED <<instruments, market_prices, session, pc, call, batch_vars, feed,
                   api_vars>>

shutdown_scheduler ==
    /\ IF _scheduler # 0
       THEN /\ schedulers' = {s \in schedulers : s.id # _scheduler}
            /\ _scheduler' = 0
            /\ scheduler_log' = "scheduler_stopped"
       ELSE UNCHANGED <<_scheduler, schedulers, scheduler_log>>
    /\ UNCHANGED <<instruments, market_prices, session, pc, call, batch_vars, feed,
                   api_vars>>

\* The interval trigger of a running scheduler fires its job; a firing while
\* the previous run is still going is skipped (max_instances is 1)
Fire ==
    /\ \E s \in schedulers : \E j \in s.jobs : j.id = "ingestion_job"
    /\ RunIngestionJob

\* The same while the database cannot be reached
FireRaises ==
    /\ \E s \in schedulers : \E j \in s.jobs : j.id = "ingestion_job"
    /\ RunIngestionJobRaises

----
(* HTTP API on the instruments: api/routes/instruments.py *)

\* PATCH /instruments/{id} with is_active supplied
update_instrument(instrument_id, is_active) ==
    /\ \E i \in instruments : i.id = instrument_id /\ i.is_active # is_active
    /\ instruments' = {IF i.id = instrument_id THEN [i EXCEPT !.is_active = is_active]
                       ELSE i : i \in instruments}
    /\ UNCHANGED <<market_prices, session, pc, call, batch_vars, env_vars>>

\* DELETE /instruments/{id}; ondelete="CASCADE" removes the instrument's prices
delete_instrument(instrument_id) ==
    /\ \E i \in instruments : i.id = instrument_id
    /\ instruments' = {i \in instruments : i.id # instrument_id}
    /\ market_prices' =
          LET keep == {x \in BagToSet(market_prices) : x.instrument_id # instrument_id}
          IN  [x \in keep |-> market_prices[x]]
    /\ call' = [r \in Runners |-> [call[r] EXCEPT !.undisturbed = FALSE]]
    /\ UNCHANGED <<session, pc, batch_vars, env_vars>>

----
(* Authentication gate: auth/token.py, auth/dependencies.py *)

\* settings.admin_email
admin_email == "admin@market.com"

\* jwt.encode({"sub": subject, "exp": now + lifetime}, settings.secret_key)
create_access_token(subject) ==
    [bearer |-> TRUE, wellformed |-> TRUE, key |-> "secret_key", expired |-> FALSE,
     sub |-> subject]

\* The token login returns
Issued == create_access_token(admin_email)

\* The credentials a request can carry: none, a string that is no JWT, a token
\* signed with another key (forged, or altered after signing), an expired
\* token, a token without sub, and a token as login issues it
Tokens ==
    { NoAuthorization,
      [Issued EXCEPT !.wellformed = FALSE],
      [Issued EXCEPT !.key = "other"],
      [Issued EXCEPT !.expired = TRUE],
      [Issued EXCEPT !.sub = ""],
      Issued }

\* jwt.decode(token, settings.secret_key, algorithms=["HS256"]): the segments,
\* then the signature, then exp; error names the InvalidTokenError raised
decode_access_token(token) ==
    IF ~token.wellformed THEN [error |-> "DecodeError", sub |-> ""]
    ELSE IF token.key # "secret_key" THEN [error |-> "InvalidSignatureError", sub |-> ""]
    ELSE IF token.expired THEN [error |-> "ExpiredSignatureError", sub |-> ""]
    ELSE [error |-> "", sub |-> token.sub]

\* Variant: the payload is read without verifying signature and exp
get_current_user_Unverified(token) == IF token.bearer THEN admin_email ELSE ""

\* The subject of the request, "" where the dependency raises 401: no bearer
\* credential (OAuth2PasswordBearer), InvalidTokenError, or no sub
get_current_user(token) ==
    IF ~token.bearer THEN ""
    ELSE LET payload == decode_access_token(token)
         IN  IF payload.error # "" THEN "" ELSE payload.sub

----
(* Queries of the repositories behind the routes *)

\* session.get(Instrument, obj_id)
get_by_id(obj_id) ==
    IF \E i \in instruments : i.id = obj_id
    THEN CHOOSE i \in instruments : i.id = obj_id
    ELSE NoInstrument

\* session.query(Instrument).all()
get_all == instruments

\* order_by(MarketPrice.timestamp.asc()) over the rows of one instrument
RECURSIVE Ascending(_)
Ascending(rows) ==
    IF rows = {} THEN <<>>
    ELSE LET first == CHOOSE x \in rows : \A y \in rows : x.timestamp <= y.timestamp
         IN  <<Loaded(first)>> \o Ascending(rows \ {first})

Reverse(s) == [i \in 1..Len(s) |-> s[Len(s) + 1 - i]]

\* The Python slice s[from : to] for 0 <= from <= to
Slice(s, from, to) ==
    IF from >= Len(s) THEN <<>>
    ELSE SubSeq(s, from + 1, IF to < Len(s) THEN to ELSE Len(s))

\* filter(instrument_id).order_by(timestamp.desc()); if limit: query.limit(limit)
get_by_instrument(instrument_id, limit) ==
    LET rows == {x \in BagToSet(market_prices) : x.instrument_id = instrument_id}
        found == Reverse(Ascending(rows))
    IN  IF limit # 0 THEN Slice(found, 0, limit) ELSE found

\* filter(instrument_id, timestamp >= start_date, timestamp <= end_date)
\* .order_by(timestamp.asc())
get_by_date_range(instrument_id, start_date, end_date) ==
    Ascending({x \in BagToSet(market_prices) :
                 /\ x.instrument_id = instrument_id
                 /\ x.timestamp >= start_date
                 /\ x.timestamp <= end_date})

----
(* HTTP routes: main.py, api/routes/.  A handler whose reads and writes are   *)
(* one statement against the database is one step; create_instrument, which  *)
(* reads, decides and then inserts, is two.  A response stays in response    *)
(* until the client has taken it.                                            *)

Reply(c, route, token, args, status, body) ==
    [client |-> c, route |-> route, token |-> token, args |-> args,
     status |-> status, body |-> body]

\* The server takes a request of client c
Accepts(c) == response = NoReply /\ requests[c] = NoRequest

\* Depends(get_current_user) on the instruments and prices routers
Protected(route) == route \notin {"health_check", "login"}

\* What a route that only reads sends: 401 from the gate, or its own answer
Answer(c, route, token, args, status, body) ==
    /\ Accepts(c)
    /\ response' = IF Protected(route) /\ get_current_user(token) = ""
                   THEN Reply(c, route, token, args, 401, NoBody)
                   ELSE Reply(c, route, token, args, status, body)
    /\ UNCHANGED <<instruments, market_prices, session, pc, call, batch_vars, feed,
                   _scheduler, schedulers, scheduler_log, settings,
                   instruments_id_seq, requests>>

\* GET /health
health_check(c, token) ==
    Answer(c, "health_check", token, NoArgs, 200, NoBody)

\* POST /auth/token: 401 unless the form carries the admin's email and password
login(c, username, verified) ==
    IF username # admin_email \/ ~verified
    THEN Answer(c, "login", NoAuthorization, NoArgs, 401, NoBody)
    ELSE Answer(c, "login", NoAuthorization, NoArgs, 200,
                [NoBody EXCEPT !.access_token = Issued])

\* GET /instruments/
list_instruments(c, token) ==
    Answer(c, "list_instruments", token, NoArgs, 200,
           [NoBody EXCEPT !.instruments = get_all])

\* GET /instruments/{instrument_id}
get_instrument(c, token, instrument_id) ==
    LET instrument == get_by_id(instrument_id)
        args == [NoArgs EXCEPT !.instrument_id = instrument_id]
    IN  IF instrument = NoInstrument
        THEN Answer(c, "get_instrument", token, args, 404, NoBody)
        ELSE Answer(c, "get_instrument", token, args, 200,
                    [NoBody EXCEPT !.instruments = {instrument}])

\* GET /instruments/{instrument_id}/prices
get_instrument_prices(c, token, instrument_id, limit) ==
    LET args == [NoArgs EXCEPT !.instrument_id = instrument_id, !.limit = limit]
    IN  IF get_by_id(instrument_id) = NoInstrument
        THEN Answer(c, "get_instrument_prices", token, args, 404, NoBody)
        ELSE Answer(c, "get_instrument_prices", token, args, 200,
                    [NoBody EXCEPT !.prices = get_by_instrument(instrument_id, limit)])

\* GET /prices/{instrument_id}; a date of 0 stands for a parameter not given
get_prices(c, token, instrument_id, start_date, end_date, limit, offset) ==
    LET args == [NoArgs EXCEPT !.instrument_id = instrument_id,
                               !.start_date = start_date, !.end_date = end_date,
                               !.limit = limit, !.offset = offset]
        prices == IF start_date # 0 /\ end_date # 0
                  THEN Slice(get_by_date_range(instrument_id, start_date, end_date),
                             offset, offset + limit)
                  ELSE get_by_instrument(instrument_id, limit)
    IN  IF get_by_id(instrument_id) = NoInstrument
        THEN Answer(c, "get_prices", token, args, 404, NoBody)
        ELSE Answer(c, "get_prices", token, args, 200,
                    [NoBody EXCEPT !.prices = prices])

\* GET /prices/{instrument_id}/latest
get_latest_price(c, token, instrument_id) ==
    LET args == [NoArgs EXCEPT !.instrument_id = instrument_id]
        found == get_by_instrument(instrument_id, 1)
    IN  IF get_by_id(instrument_id) = NoInstrument \/ found = <<>>
        THEN Answer(c, "get_latest_price", token, args, 404, NoBody)
        ELSE Answer(c, "get_latest_price", token, args, 200,
                    [NoBody EXCEPT !.prices = found])

\* The bodies a client posts to create an instrument
InstrumentCreate ==
    { [symbol |-> Seed(id).symbol, name |-> Seed(id).name,
       instrument_type |-> Seed(id).instrument_type, exchange |-> Seed(id).exchange] :
        id \in InstrumentIds }

\* POST /instruments/, up to the decision to insert: 409 if the symbol is taken
create_instrument(c, token, payload) ==
    LET args == [NoArgs EXCEPT !.payload = payload]
        open == Cardinality({d \in Clients : requests[d] # NoRequest})
    IN  IF get_current_user(token) = ""
        THEN Answer(c, "create_instrument", token, args, 401, NoBody)
        ELSE IF get_by_symbol(payload.symbol) # NoInstrument
        THEN Answer(c, "create_instrument", token, args, 409, NoBody)
        ELSE /\ Accepts(c)
             /\ instruments_id_seq + open < MaxInstrumentId
             /\ requests' = [requests EXCEPT ![c] =
                               [route |-> "create_instrument", token |-> token,
                                args |-> args]]
             /\ UNCHANGED <<instruments, market_prices, session, pc, call, batch_vars,
                            feed, _scheduler, schedulers, scheduler_log, settings,
                            instruments_id_seq, response>>

\* repo.create(instrument): session.add, commit, refresh.  The INSERT takes
\* the next id of the sequence; a symbol that is taken by now violates the
\* unique index, the IntegrityError leaves the handler uncaught and the
\* client gets 500.
BaseRepository_create(c) ==
    LET request == requests[c]
        payload == request.args.payload
        id == instruments_id_seq + 1
        created == [id |-> id, symbol |-> payload.symbol, name |-> payload.name,
                    instrument_type |-> payload.instrument_type,
                    exchange |-> payload.exchange, is_active |-> TRUE]
    IN  /\ request.route = "create_instrument"
        /\ response = NoReply
        /\ requests' = [requests EXCEPT ![c] = NoRequest]
        /\ instruments_id_seq' = id
        /\ IF \E i \in instruments : i.symbol = payload.symbol
           THEN /\ response' = Reply(c, request.route, request.token, request.args,
                                     500, NoBody)
                /\ UNCHANGED instruments
           ELSE /\ instruments' = instruments \cup {created}
                /\ response' = Reply(c, request.route, request.token, request.args,
                                     201, [NoBody EXCEPT !.instruments = {created}])
        /\ UNCHANGED <<market_prices, session, pc, call, batch_vars, feed, _scheduler,
                       schedulers, scheduler_log, settings>>

\* The bodies a client sends to PATCH: fields_set is what the JSON names
\* (model_fields_set); a named field carries a value or null
InstrumentUpdate ==
    { [fields_set |-> fs,
       name |-> IF "name" \in fs THEN n ELSE None,
       exchange |-> IF "exchange" \in fs THEN "NYSE" ELSE None,
       is_active |-> FALSE] :
        fs \in SUBSET {"name", "exchange", "is_active"},
        n \in {"Apple", None} }

\* payload.model_dump(exclude_unset=True), then setattr for each item
Patched_AllFields(instrument, payload) ==
    [instrument EXCEPT !.name = payload.name, !.exchange = payload.exchange,
                       !.is_active = payload.is_active]

Patched(instrument, payload) ==
    [instrument EXCEPT
        !.name = IF "name" \in payload.fields_set THEN payload.name ELSE @,
        !.exchange = IF "exchange" \in payload.fields_set THEN payload.exchange ELSE @,
        !.is_active = IF "is_active" \in payload.fields_set THEN payload.is_active
                      ELSE @]

\* PATCH /instruments/{instrument_id}, with any body; repo.update commits, and
\* a column set to None violates NOT NULL: IntegrityError, uncaught, 500
PATCH_instrument(c, token, instrument_id, payload) ==
    LET args == [NoArgs EXCEPT !.instrument_id = instrument_id, !.payload = payload]
        instrument == get_by_id(instrument_id)
        updated == Patched(instrument, payload)
    IN  IF get_current_user(token) = ""
        THEN Answer(c, "update_instrument", token, args, 401, NoBody)
        ELSE IF instrument = NoInstrument
        THEN Answer(c, "update_instrument", token, args, 404, NoBody)
        ELSE IF updated.name = None \/ updated.exchange = None
        THEN Answer(c, "update_instrument", token, args, 500, NoBody)
        ELSE /\ Accepts(c)
             /\ instruments' = (instruments \ {instrument}) \cup {updated}
             /\ response' = Reply(c, "update_instrument", token, args, 200,
                                  [NoBody EXCEPT !.instruments = {updated}])
             /\ UNCHANGED <<market_prices, session, pc, call, batch_vars, feed,
                            _scheduler, schedulers, scheduler_log, settings,
                            instruments_id_seq, requests>>

\* DELETE /instruments/{instrument_id}, with its gate and its response
DELETE_instrument(c, token, instrument_id) ==
    LET args == [NoArgs EXCEPT !.instrument_id = instrument_id]
    IN  IF get_current_user(token) = ""
        THEN Answer(c, "delete_instrument", token, args, 401, NoBody)
        ELSE IF get_by_id(instrument_id) = NoInstrument
        THEN Answer(c, "delete_instrument", token, args, 404, NoBody)
        ELSE /\ Accepts(c)
             /\ instruments' = {i \in instruments : i.id # instrument_id}
             /\ market_prices' =
                   LET keep == {x \in BagToSet(market_prices) :
                                   x.instrument_id # instrument_id}
                   IN  [x \in keep |-> market_prices[x]]
             /\ call' = [r \in Runners |-> [call[r] EXCEPT !.undisturbed = FALSE]]
             /\ response' = Reply(c, "delete_instrument", token, args, 204, NoBody)
             /\ UNCHANGED <<session, pc, batch_vars, feed, _scheduler, schedulers,
                            scheduler_log, settings, instruments_id_seq, requests>>

\* The client takes the response
Deliver ==
    /\ response # NoReply
    /\ response' = NoReply
    /\ UNCHANGED <<instruments, market_prices, session, pc, call, batch_vars, feed,
                   _scheduler, schedulers, scheduler_log, settings,
                   instruments_id_seq, requests>>

----
(* Application life cycle: main.py lifespan *)

\* Variant: the scheduler is started whatever the setting
SchedulerEnabled_Always == TRUE

\* if settings.scheduler_enabled
SchedulerEnabled == settings.scheduler_enabled

\* Startup: start_scheduler(settings.ingestion_interval_minutes)
lifespan_startup == SchedulerEnabled /\ start_scheduler(ingestion_interval_minutes)

\* Shutdown
lifespan_shutdown == SchedulerEnabled /\ shutdown_scheduler

----
Next ==
    \/ \E interval_minutes \in Intervals : start_scheduler(interval_minutes)
    \/ shutdown_scheduler
    \/ RunIngestionJob
    \/ RunIngestionJobRaises
    \/ IngestAllActiveLoop
    \/ \E r \in Runners : IngestLookup(r)
    \/ \E r \in Runners : BulkCreateNewCheck(r)
    \/ \E r \in Runners : BulkCreateCommit(r)
    \/ \E r \in Runners : BulkCreateRefresh(r)
    \/ \E symbol \in Symbols : CallIngestBySymbol(symbol)
    \/ CallIngestBySymbolAgain
    \/ \E id \in InstrumentIds, timestamps \in SeqsUpTo(Timestamps, MaxLen) :
          CallGetExistingTimestamps(id, timestamps)
    \/ \E rows \in DirectRows : CallBulkCreate(rows)
    \/ CallerRollback
    \/ \E id \in InstrumentIds, flag \in BOOLEAN : update_instrument(id, flag)
    \/ \E id \in InstrumentIds : delete_instrument(id)

Spec == Init /\ [][Next]_vars

\* The specifications below restrict Spec to the execution paths a property
\* is about, so that each of them is explored exhaustively.  Where no
\* scheduler is modelled a tick stands for the firing of a running one.

\* The tick and a caller working on the prices of one instrument at once
NextStore ==
    \/ RunIngestionJob
    \/ IngestAllActiveLoop
    \/ \E r \in Runners : IngestLookup(r)
    \/ \E r \in Runners : BulkCreateNewCheck(r)
    \/ \E r \in Runners : BulkCreateCommit(r)
    \/ \E r \in Runners : BulkCreateRefresh(r)
    \/ \E symbol \in Symbols : CallIngestBySymbol(symbol)
    \/ \E rows \in DirectRows : CallBulkCreate(rows)
    \/ CallerRollback

SpecStore == InitOne /\ [][NextStore]_vars

\* One caller, calls in succession, while instruments are deleted
NextCaller ==
    \/ IngestLookup("caller")
    \/ BulkCreateNewCheck("caller")
    \/ BulkCreateCommit("caller")
    \/ BulkCreateRefresh("caller")
    \/ \E symbol \in Symbols : CallIngestBySymbol(symbol)
    \/ CallIngestBySymbolAgain
    \/ \E id \in InstrumentIds, timestamps \in SeqsUpTo(Timestamps, MaxLen) :
          CallGetExistingTimestamps(id, timestamps)
    \/ CallerRollback
    \/ \E id \in InstrumentIds : delete_instrument(id)

SpecCaller == Init /\ [][NextCaller]_vars

\* The scheduled batch, while instruments are patched and deleted
NextBatch ==
    \/ RunIngestionJob
    \/ IngestAllActiveLoop
    \/ IngestLookup("tick")
    \/ BulkCreateNewCheck("tick")
    \/ BulkCreateCommit("tick")
    \/ BulkCreateRefresh("tick")
    \/ \E id \in InstrumentIds, flag \in BOOLEAN : update_instrument(id, flag)
    \/ \E id \in InstrumentIds : delete_instrument(id)

SpecBatch == Init /\ [][NextBatch]_vars

\* The application's life cycle and the ticks of its scheduler, one instrument
NextScheduler ==
    \/ \E interval_minutes \in Intervals : start_scheduler(interval_minutes)
    \/ shutdown_scheduler
    \/ Fire
    \/ FireRaises
    \/ IngestAllActiveLoop
    \/ IngestLookup("tick")
    \/ BulkCreateNewCheck("tick")
    \/ BulkCreateCommit("tick")
    \/ BulkCreateRefresh("tick")

SpecScheduler == InitOne /\ [][NextScheduler]_vars

\* ingest_by_symbol over the sampled prices and volumes
NextValues ==
    \/ IngestLookup("caller")
    \/ BulkCreateNewCheck("caller")
    \/ BulkCreateCommit("caller")
    \/ BulkCreateRefresh("caller")
    \/ \E symbol \in Symbols : CallIngestBySymbol(symbol)
    \/ CallerRollback

SpecValues == InitValues /\ [][NextValues]_vars

\* The repository called with lists of any composition, ingest_by_symbol
\* calls, and instruments deleted meanwhile
NextRepository ==
    \/ \E prices \in PriceBatches : CallBulkCreateNew(prices)
    \/ \E symbol \in Symbols : CallIngestBySymbol(symbol)
    \/ IngestLookup("caller")
    \/ BulkCreateNewCheck("caller")
    \/ BulkCreateCommit("caller")
    \/ BulkCreateRefresh("caller")
    \/ CallerRollback
    \/ \E id \in InstrumentIds : delete_instrument(id)

SpecRepository == InitRepository /\ [][NextRepository]_vars

\* The price queries of an authenticated client over any table
NextPrices ==
    \/ \E c \in Clients, id \in 1..MaxInstrumentId,
          start_date \in {0} \cup StoredDates, end_date \in {0} \cup StoredDates,
          limit \in 1..MaxLimit, offset \in 0..MaxOffset :
             get_prices(c, Issued, id, start_date, end_date, limit, offset)
    \/ \E c \in Clients, id \in 1..MaxInstrumentId, limit \in 0..MaxLimit :
          get_instrument_prices(c, Issued, id, limit)
    \/ \E c \in Clients, id \in 1..MaxInstrumentId : get_latest_price(c, Issued, id)
    \/ Deliver

SpecPrices == InitPrices /\ [][NextPrices]_vars

\* The instrument routes of authenticated clients; two clients create
NextInstruments ==
    \/ list_instruments("a", Issued)
    \/ \E id \in 1..MaxInstrumentId : get_instrument("a", Issued, id)
    \/ \E c \in Clients, payload \in InstrumentCreate :
          create_instrument(c, Issued, payload)
    \/ \E c \in Clients : BaseRepository_create(c)
    \/ \E id \in 1..MaxInstrumentId, payload \in InstrumentUpdate :
          PATCH_instrument("a", Issued, id, payload)
    \/ \E id \in 1..MaxInstrumentId : DELETE_instrument("a", Issued, id)
    \/ Deliver

SpecInstruments == InitApi /\ [][NextInstruments]_vars

\* Every route, requested with every kind of credential
NextGate ==
    \/ \E token \in Tokens : health_check("a", token)
    \/ \E username \in {admin_email, "guest@market.com"}, verified \in BOOLEAN :
          login("a", username, verified)
    \/ \E token \in Tokens : list_instruments("a", token)
    \/ \E token \in Tokens : get_instrument("a", token, 1)
    \/ \E token \in Tokens : get_instrument_prices("a", token, 1, MaxLimit)
    \/ \E token \in Tokens : get_prices("a", token, 1, 1, MaxTs, MaxLimit, 0)
    \/ \E token \in Tokens : get_latest_price("a", token, 1)
    \/ \E token \in Tokens, payload \in InstrumentCreate :
          create_instrument("a", token, payload)
    \/ BaseRepository_create("a")
    \/ \E token \in Tokens, payload \in InstrumentUpdate :
          PATCH_instrument("a", token, 1, payload)
    \/ \E token \in Tokens, id \in InstrumentIds : DELETE_instrument("a", token, id)
    \/ Deliver

SpecGate == InitApi /\ [][NextGate]_vars

\* The application: startup and shutdown, the ticks of its scheduler, and an
\* authenticated client on every route
NextApp ==
    \/ lifespan_startup
    \/ lifespan_shutdown
    \/ Fire
    \/ IngestAllActiveLoop
    \/ IngestLookup("tick")
    \/ BulkCreateNewCheck("tick")
    \/ BulkCreateCommit("tick")
    \/ BulkCreateRefresh("tick")
    \/ health_check("a", Issued)
    \/ login("a", admin_email, TRUE)
    \/ list_instruments("a", Issued)
    \/ get_instrument("a", Issued, 1)
    \/ get_instrument_prices("a", Issued, 1, MaxLimit)
    \/ get_prices("a", Issued, 1, 1, MaxTs, MaxLimit, 0)
    \/ get_latest_price("a", Issued, 1)
    \/ create_instrument("a", Issued, CHOOSE payload \in InstrumentCreate :
                                          payload.symbol = Seed(1).symbol)
    \/ BaseRepository_create("a")
    \/ \E payload \in InstrumentUpdate :
          payload.fields_set = {"is_active"} /\ PATCH_instrument("a", Issued, 1, payload)
    \/ DELETE_instrument("a", Issued, 1)
    \/ Deliver

SpecApp == InitApp /\ [][NextApp]_vars

\* The scheduled batch on its own: nothing else writes to the store
NextTick ==
    \/ RunIngestionJob
    \/ RunIngestionJobRaises
    \/ IngestAllActiveLoop
    \/ IngestLookup("tick")
    \/ BulkCreateNewCheck("tick")
    \/ BulkCreateCommit("tick")
    \/ BulkCreateRefresh("tick")

SpecTick == Init /\ [][NextTick]_vars

TypeOK ==
    /\ \A r \in Runners : session[r] \in {"closed", "active", "inactive"}
    /\ \A r \in Runners : pc[r] \in {"idle", "loop", "lookup", "check", "write", "refresh"}
    /\ cursor \in 0..Len(active_instruments)
    /\ job_log \in {"none", "scheduler_job_started", "scheduler_job_complete",
                    "scheduler_job_failed"}
    /\ feed \subseteq BarValues \cup OtherBarValues \cup ValueSamples
    /\ _scheduler \in 0..MaxSchedulers
    /\ \A s \in schedulers : s.id \in 1..MaxSchedulers
    /\ scheduler_log \in {"none", "scheduler_already_running", "scheduler_started",
                          "scheduler_stopped"}

----
(* Properties *)

InstrumentExists(instrument_id) == \E i \in instruments : i.id = instrument_id

\* C1: in every reachable state the price table holds at most one row per
\* (instrument_id, timestamp), whatever the interleaving of scheduled batches,
\* ingest_by_symbol calls (two of them may overlap between the existence check
\* and the insert) and direct bulk_create calls.
UniqueInstrumentTimestamp ==
    \A x \in BagToSet(market_prices) :
        /\ CopiesIn(x, market_prices) = 1
        /\ \A y \in BagToSet(market_prices) : SameKey(x, y) => x = y

\* Two overlapping runs passed the existence check, one committed and the
\* database refused the other
UniqueInstrumentTimestampWitness ==
    \E r \in Runners :
        /\ call[r].raced /\ call[r].exc = "IntegrityError"
        /\ market_prices # EmptyBag

\* C2: for an existing instrument and a list of valid provider quotes with
\* pairwise distinct timestamps, of two successive undisturbed ingest_by_symbol
\* calls given the same provider answer the first inserts every quote not yet
\* stored (afterwards the whole list is stored) and the second returns 0, and
\* the instrument has as many rows after the second call as after the first.
IdempotentIngestion ==
    LET rec == call["caller"]
        valid == \A i \in 1..Len(rec.answer) :
                    Valid(transform(rec.answer[i], rec.instrument_id))
    IN  (/\ rec.replay /\ rec.outcome # "none"
         /\ rec.first.clean /\ rec.session_ok /\ rec.undisturbed
         /\ valid)
        => /\ rec.first.outcome \in {"persisted", "nothing_new"}
           /\ rec.first.result = Len(rec.answer) - rec.first.existing
           /\ rec.outcome = "nothing_new"
           /\ rec.result = 0
           /\ rec.rows_after = rec.first.rows_after
           /\ Range(TimestampsOf(rec.answer)) \subseteq Stored(rec.instrument_id)

\* A second call has returned after a first one that inserted two rows
IdempotentIngestionWitness ==
    LET rec == call["caller"]
    IN  /\ rec.replay /\ rec.outcome = "nothing_new"
        /\ rec.first.clean /\ rec.session_ok /\ rec.undisturbed
        /\ rec.first.outcome = "persisted"
        /\ rec.first.result = 2
        /\ Len(rec.answer) = 2

\* C3: when the store holds N timestamps of an instrument and a batch of that
\* instrument holds those N timestamps and M more, bulk_create_new persists
\* and returns exactly the M new records and ingest_by_symbol returns M.
PartialNovelty ==
    LET rec == call["caller"]
        timestamps == Range(TimestampsOf(rec.prices))
        N == Cardinality(rec.stored)
        M == Len(rec.prices) - N
    IN  (/\ rec.kind = "ingest_by_symbol" /\ rec.insert_called
         /\ rec.outcome # "none" /\ rec.undisturbed
         /\ Distinct(rec.prices) /\ rec.stored \subseteq timestamps)
        => /\ rec.outcome \in {"persisted", "nothing_new"}
           /\ rec.new_prices = FilterSeq(rec.prices, timestamps \ rec.stored)
           /\ Len(rec.new_prices) = M
           /\ \A i \in 1..M : BagIn(Row(rec.new_prices[i]), market_prices)
           /\ rec.rows_after = N + M
           /\ rec.result = M

\* One timestamp was stored, the batch held it and a new one (N = 1, M = 1)
PartialNoveltyWitness ==
    LET rec == call["caller"]
    IN  /\ rec.kind = "ingest_by_symbol" /\ rec.outcome = "persisted"
        /\ rec.undisturbed /\ Distinct(rec.prices)
        /\ Cardinality(rec.stored) = 1 /\ Len(rec.prices) = 2
        /\ rec.result = 1

\* C4: when two ingestion runs of one instrument both pass the existence check
\* for a timestamp new to the store before either commits, the run whose write
\* meets the uniqueness constraint ends without raising.
ConflictAbsorbed ==
    \A r \in Runners :
        LET rec == call[r]
            contested == {t \in rec.rival_ts \cap Range(TimestampsOf(rec.new_prices)) :
                            t \notin rec.before_both}
        IN  (/\ rec.raced /\ rec.outcome # "none"
             /\ contested # {}
             /\ InstrumentExists(rec.instrument_id))
            => rec.outcome # "raised"

\* C5: when two bulk_create_new calls of one instrument overlap, every
\* timestamp absent from the store before both and present in one of the two
\* batches is stored once both calls have ended.
NoLossUnderRace ==
    \A r \in Runners :
        LET rec == call[r]
            offered == Range(TimestampsOf(rec.prices)) \cup rec.rival_ts
        IN  (/\ rec.raced /\ rec.rival_done /\ rec.outcome # "none"
             /\ InstrumentExists(rec.instrument_id))
            => \A t \in offered \ rec.before_both : t \in Stored(rec.instrument_id)

\* ingest_all_active has returned its summary
Returned == summary.total_instruments # -1

\* The last tick ended in the except clause of run_ingestion_job
Aborted == job_log = "scheduler_job_failed"

\* Calls of the batch that raised for a cause of their own: anything but the
\* refusal of a session that an earlier failure left unusable
OwnFailures ==
    {i \in 1..Len(outcomes) : /\ outcomes[i].outcome = "raised"
                              /\ outcomes[i].exc # "PendingRollbackError"}

\* Sum of the counts returned by the calls at the positions S of the batch
RECURSIVE InsertedBy(_)
InsertedBy(S) ==
    IF S = {} THEN 0
    ELSE LET i == CHOOSE j \in S : TRUE
         IN  outcomes[i].result + InsertedBy(S \ {i})

\* C6: when in a batch over N instruments the pipeline of exactly one
\* instrument fails (at fetch, transform or insert), ingest_all_active returns
\* failed = 1 and total_instruments = N, the other instruments are processed
\* without raising, and total_inserted is the sum of what they inserted.
BatchFailureIsolation ==
    ((Returned \/ Aborted) /\ Cardinality(OwnFailures) = 1)
    => /\ Returned
       /\ summary.failed = 1
       /\ summary.total_instruments = Len(active_instruments)
       /\ \A i \in 1..Len(outcomes) : i \notin OwnFailures =>
                                         outcomes[i].outcome # "raised"
       /\ summary.total_inserted = InsertedBy((1..Len(outcomes)) \ OwnFailures)

\* C7: an ingest_by_symbol call, on a usable session, for a symbol the
\* instrument store does not contain returns 0 without invoking the provider
\* client and leaves the price store as it was.
UnknownSymbolShortCircuit ==
    [][\A r \in Runners :
          (/\ pc[r] = "lookup" /\ pc'[r] # "lookup"
           /\ session[r] = "active"
           /\ \A i \in instruments : i.symbol # call[r].symbol)
          => /\ call'[r].outcome = "not_found"
             /\ call'[r].result = 0
             /\ ~call'[r].fetched
             /\ market_prices' = market_prices]_vars

\* A call for a symbol of no instrument has returned
UnknownSymbolShortCircuitWitness ==
    LET rec == call["caller"]
    IN  /\ rec.kind = "ingest_by_symbol" /\ rec.outcome = "not_found"
        /\ rec.session_ok /\ ~rec.fetched /\ rec.result = 0
        /\ \A i \in instruments : i.symbol # rec.symbol

\* C8: whenever the client returns NoData for an existing instrument,
\* ingest_by_symbol returns 0, nothing is transformed, bulk_create_new is not
\* invoked and the price store stays as it was.
NoDataShortCircuit ==
    [][\A r \in Runners :
          (/\ pc[r] = "lookup" /\ call'[r].fetched
           /\ get_historical_prices(call'[r].response) = NoData)
          => /\ call'[r].outcome = "no_data"
             /\ call'[r].result = 0
             /\ ~call'[r].transformed
             /\ ~call'[r].insert_called
             /\ pc'[r] \notin {"check", "write", "refresh"}
             /\ market_prices' = market_prices]_vars

\* A call whose provider answer had no result has returned
NoDataShortCircuitWitness ==
    LET rec == call["caller"]
    IN  /\ rec.fetched /\ rec.outcome = "no_data" /\ rec.result = 0
        /\ rec.response.result = "empty"
        /\ InstrumentExists(rec.instrument_id)

\* C9: for every answer of a failing provider (timeout, non-2xx status, a body
\* that is no JSON, a JSON body of unexpected shape or with unparsable values)
\* get_historical_prices returns NoData and does not raise.
ClientNeverRaises ==
    \A r \in Runners :
        (call[r].fetched /\ call[r].response \in ProviderFailures)
        => get_historical_prices(call[r].response) = NoData

\* Calls of the batch that raised
Raised == {i \in 1..Len(outcomes) : outcomes[i].outcome = "raised"}

\* C10: failed counts exactly the ingest_by_symbol calls of the batch that
\* raised, a call that returned 0 is not among them, and in the summary
\* total_instruments is the size of the snapshot, so failed <= total_instruments.
FailedCountsRaised ==
    /\ ~Aborted => failed = Cardinality(Raised)
    /\ Returned =>
          /\ Len(outcomes) = Len(active_instruments)
          /\ summary.failed = Cardinality(Raised)
          /\ summary.total_instruments = Len(active_instruments)
          /\ summary.failed <= summary.total_instruments

\* A batch has returned in which one call raised and another returned 0
FailedCountsRaisedWitness ==
    /\ Returned
    /\ summary.failed = 1
    /\ \E i \in 1..Len(outcomes) :
          /\ outcomes[i].outcome \in {"not_found", "no_data", "nothing_new"}
          /\ outcomes[i].result = 0

\* C11: ingest_all_active reads the active instruments once, when the batch
\* starts: the list is the active set of that moment and stays as read until
\* the tick ends; the calls of the batch are made for the instruments of the
\* list, in its order and one each, whatever is activated or deactivated
\* meanwhile; a listed instrument that still exists is looked up and found even
\* when it has been deactivated; and a batch that returns has made one call
\* for every listed instrument.
SnapshotOnce ==
    [][/\ (pc["tick"] = "idle" /\ pc'["tick"] = "loop")
          => /\ {x.id : x \in Range(active_instruments')} = {i.id : i \in get_active}
             /\ Len(active_instruments') = Cardinality(get_active)
       /\ pc["tick"] # "idle" => active_instruments' = active_instruments
       /\ Len(outcomes') <= Len(active_instruments')
       /\ \A i \in 1..Len(outcomes') :
             outcomes'[i].symbol = active_instruments'[i].symbol
       /\ (pc["tick"] = "loop" /\ pc'["tick"] = "lookup")
          => /\ cursor' = Len(outcomes) + 1
             /\ call'["tick"].symbol = active_instruments[cursor'].symbol
       /\ (/\ pc["tick"] = "lookup" /\ pc'["tick"] # "lookup"
           /\ session["tick"] = "active"
           /\ \E i \in instruments : i.symbol = call["tick"].symbol)
          => call'["tick"].outcome # "not_found"
       /\ Returned' => Len(outcomes') = Len(active_instruments')]_vars

\* A batch is writing the prices of an instrument that was deactivated after
\* the list was read, while an instrument activated since then is not listed
SnapshotOnceWitness ==
    /\ pc["tick"] = "refresh"
    /\ \E i \in instruments : i.symbol = call["tick"].symbol /\ ~i.is_active
    /\ \E i \in get_active : \A k \in 1..Len(active_instruments) :
                                 active_instruments[k].id # i.id

\* C12: after any sequence of start_scheduler and shutdown_scheduler calls at
\* most one scheduler instance is alive, it is the one the module's global
\* refers to and it holds exactly one job, the ingestion job; a
\* start_scheduler call while a scheduler runs creates no scheduler and no job
\* and leaves the running one as it is.
SchedulerSingleton ==
    /\ [](/\ Cardinality(schedulers) <= 1
          /\ \A s \in schedulers :
                /\ s.id = _scheduler
                /\ Cardinality(s.jobs) = 1
                /\ \A j \in s.jobs : j.id = "ingestion_job"
          /\ _scheduler # 0 => \E s \in schedulers : s.id = _scheduler)
    /\ [][(/\ _scheduler # 0
           /\ scheduler_log' \in {"scheduler_already_running", "scheduler_started"}
           /\ scheduler_log' # scheduler_log)
          => /\ scheduler_log' = "scheduler_already_running"
             /\ schedulers' = schedulers
             /\ _scheduler' = _scheduler]_vars

\* start_scheduler was called while a scheduler was running
SchedulerSingletonWitness ==
    /\ scheduler_log = "scheduler_already_running"
    /\ Cardinality(schedulers) = 1
    /\ _scheduler # 0

\* C13: a tick that fails, because the database cannot be reached when the
\* active instruments are looked up or because an error escapes
\* ingest_all_active, ends inside run_ingestion_job: the failure is logged, the
\* session is closed, no summary is returned, the step leaves the scheduler
\* and its job as they were, and the next tick can start.
TickFailureContained ==
    /\ [](pc["tick"] = "idle" =>
            job_log \in {"none", "scheduler_job_complete", "scheduler_job_failed"})
    /\ [](Aborted => /\ pc["tick"] = "idle"
                     /\ session["tick"] = "closed"
                     /\ ~Returned
                     /\ schedulers # {} => ENABLED Fire)
    /\ [][(job_log' = "scheduler_job_failed" /\ job_log # "scheduler_job_failed")
          => /\ schedulers' = schedulers
             /\ _scheduler' = _scheduler
             /\ \A s \in schedulers' : \E j \in s.jobs : j.id = "ingestion_job"]_vars

\* A tick failed on an error that escaped ingest_all_active while the
\* scheduler runs
TickFailureContainedWitness ==
    /\ Aborted
    /\ Len(outcomes) > 0
    /\ _scheduler # 0

\* C14: every tick works on a session of its own: the step that starts a tick
\* finds no tick session open and opens a new, usable one, whatever state the
\* session of the previous tick or of an HTTP handler is in; no step of a tick
\* touches the handler's session and no step of the handler the tick's; and
\* whenever no tick runs, no tick session is open.
SessionPerTick ==
    /\ [](pc["tick"] = "idle" => session["tick"] = "closed")
    /\ [][/\ (pc["tick"] = "idle" /\ pc'["tick"] # "idle")
              => /\ session["tick"] = "closed"
                 /\ session'["tick"] = "active"
          /\ session'["tick"] # session["tick"]
             => /\ session'["caller"] = session["caller"]
                /\ pc["tick"] # "idle" \/ pc'["tick"] # "idle"
          /\ session'["caller"] # session["caller"]
             => pc'["tick"] = pc["tick"]]_vars

\* A tick runs on a usable session while the session of the HTTP handler is
\* unusable after a failed commit
SessionPerTickWitness ==
    /\ pc["tick"] \in {"lookup", "check", "write", "refresh"}
    /\ session["tick"] = "active"
    /\ session["caller"] = "inactive"

\* C15: transform rounds open, high, low and close to 4 decimal places half
\* up: for a price of x >= 0 units of 10^-5 the result r, in units of 10^-4,
\* is floor(x / 10 + 1/2), that is 10 r - 5 <= x < 10 r + 5; a tie (last
\* digit 5) goes up, whether the fourth decimal is even or odd, and 185.00005
\* becomes 185.0001.
RoundHalfUp ==
    \A r \in Runners : \A i \in 1..Len(call[r].prices) :
        LET quote == call[r].quotes[i]
            price == call[r].prices[i]
            HalfUp(x, y) ==
                x >= 0 => /\ 10 * y - 5 <= x /\ x < 10 * y + 5
                          /\ x % 10 = 5 => y = (x \div 10) + 1
                          /\ x = 18500005 => y = 1850001
        IN  /\ HalfUp(quote.open, price.open)
            /\ HalfUp(quote.high, price.high)
            /\ HalfUp(quote.low, price.low)
            /\ HalfUp(quote.close, price.close)

\* A quote with open 185.00005 was stored with open 185.0001, its other
\* prices on no tie
RoundHalfUpWitness ==
    LET rec == call["caller"]
    IN  /\ rec.outcome = "persisted"
        /\ rec.quotes[1].open = 18500005 /\ rec.quotes[1].high = 18500020
        /\ \E row \in BagToSet(market_prices) : row.open = 1850001

\* a <= b for numbers written by their digits in one base
RECURSIVE DigitsLessEq(_, _)
DigitsLessEq(a, b) ==
    \/ Len(a) < Len(b)
    \/ /\ Len(a) = Len(b)
       /\ \/ a = <<>>
          \/ Head(a) < Head(b)
          \/ Head(a) = Head(b) /\ DigitsLessEq(Tail(a), Tail(b))

\* 2^31 <= volume <= 2^63 - 1
AboveInt32(volume) ==
    /\ DigitsLessEq(<<21, 4748, 3648>>, volume)
    /\ DigitsLessEq(volume, <<922, 3372, 368, 5477, 5807>>)

\* C16: a volume above the 32-bit signed range (and within the 64-bit one of
\* the column) keeps its exact value: the quote built from the provider's bar
\* and the record made by transform carry it unchanged, the insert does not
\* fail with an out-of-range error, the row written holds it, and the object
\* read back after the commit has it digit for digit.
VolumeRoundTrip ==
    \A r \in Runners :
        LET rec == call[r]
        IN  /\ \A i \in 1..Len(rec.prices) :
                  /\ rec.quotes[i].volume = rec.response.bars[i].volume
                  /\ rec.prices[i].volume = rec.quotes[i].volume
            /\ (\A i \in 1..Len(rec.new_prices) : AboveInt32(rec.new_prices[i].volume))
               => /\ rec.exc # "DataError"
                  /\ rec.outcome = "persisted" =>
                        /\ Len(rec.refreshed) = Len(rec.new_prices)
                        /\ \A i \in 1..Len(rec.new_prices) :
                              /\ rec.refreshed[i].volume = rec.new_prices[i].volume
                              /\ rec.undisturbed =>
                                    \E row \in BagToSet(market_prices) :
                                        /\ SameKey(row, rec.new_prices[i])
                                        /\ FromColumn(row.volume) =
                                              rec.response.bars[1].volume

\* A bar with volume 5,000,000,000 was ingested and read back
VolumeRoundTripWitness ==
    LET rec == call["caller"]
    IN  /\ rec.outcome = "persisted"
        /\ rec.response.bars[1].volume = <<50, 0, 0>>
        /\ rec.refreshed[1].volume = <<50, 0, 0>>
        /\ \E row \in BagToSet(market_prices) : row.volume = <<1, 10757, 61952>>

\* Price rows stored for one (instrument_id, timestamp)
CopiesOfKey(instrument_id, timestamp) ==
    Cardinality({x \in BagToSet(market_prices) :
                    x.instrument_id = instrument_id /\ x.timestamp = timestamp})

\* C17: records with the same (instrument_id, timestamp) handed to
\* bulk_create_new, in successive calls or inside one batch, never end in a
\* constraint violation: an undisturbed call on a usable session ends without
\* raising and leaves exactly one row for every timestamp of its batch.
DuplicateAbsorbed ==
    LET rec == call["caller"]
    IN  (/\ rec.kind = "ingest_by_symbol" /\ rec.insert_called
         /\ rec.outcome # "none" /\ rec.session_ok /\ rec.undisturbed)
        => /\ rec.exc # "IntegrityError"
           /\ rec.outcome \in {"persisted", "nothing_new"}
           /\ \A i \in 1..Len(rec.prices) :
                 CopiesOfKey(rec.instrument_id, rec.prices[i].timestamp) = 1

\* C18: the write of one bulk_create_new call is all or nothing: the step
\* that commits either adds every record the call set out to insert, or
\* raises and leaves the table exactly as it was; and no other step of the
\* call changes the table.
AtomicBatchWrite ==
    [][\A r \in Runners :
          /\ (pc[r] = "write" /\ pc'[r] # "write")
             => \/ /\ call'[r].outcome = "raised"
                   /\ market_prices' = market_prices
                \/ /\ pc'[r] = "refresh"
                   /\ market_prices' =
                         market_prices (+) SeqToBag(Rows(call[r].new_prices))
          /\ (pc[r] \in {"lookup", "check", "refresh"} /\ pc'[r] # pc[r])
             => market_prices' = market_prices]_vars

\* A call that set out to insert two records was refused and the instrument
\* has no row
AtomicBatchWriteWitness ==
    LET rec == call["caller"]
    IN  /\ rec.outcome = "raised" /\ rec.exc = "IntegrityError"
        /\ Len(rec.new_prices) = 2
        /\ InstrumentExists(rec.instrument_id)
        /\ RowCount(rec.instrument_id) = 0

\* C19: get_existing_timestamps(instrument_id, candidates) returns exactly
\* the candidates for which the table holds a row of that instrument at that
\* timestamp, in a direct call and in the existence check of bulk_create_new:
\* nothing outside the candidates, nothing stored for another instrument
\* only; for an empty list it returns the empty set and makes no query, so it
\* returns even on a session on which every query raises.
ExistingTimestampsExact ==
    [][LET rec == call'["caller"]
           StoredFor(id, ts) ==
               {t \in Range(ts) : \E x \in BagToSet(market_prices) :
                                     x.instrument_id = id /\ x.timestamp = t}
       IN  /\ (/\ rec.kind = "get_existing_timestamps"
               /\ rec # call["caller"]
               /\ instruments' = instruments)
              => /\ rec.candidates = <<>> =>
                       /\ rec.outcome = "returned"
                       /\ rec.existing = {}
                       /\ ~rec.queried
                 /\ rec.outcome = "returned" =>
                       rec.existing = StoredFor(rec.instrument_id, rec.candidates)
                 /\ (rec.candidates # <<>> /\ session["caller"] = "active") =>
                       rec.outcome = "returned" /\ rec.queried
           /\ \A r \in Runners :
                 (pc[r] = "check" /\ pc'[r] = "write")
                 => call'[r].existing =
                       StoredFor(call[r].instrument_id, TimestampsOf(call[r].prices))]_vars

\* Asked for two timestamps of an instrument that has a row at one of them,
\* while another instrument has a row at the other, the call returned the one
ExistingTimestampsExactWitness ==
    LET rec == call["caller"]
    IN  /\ rec.kind = "get_existing_timestamps" /\ rec.outcome = "returned"
        /\ Range(rec.candidates) = {1, 2}
        /\ rec.existing = {1}
        /\ Stored(rec.instrument_id) = {1}
        /\ \E x \in BagToSet(market_prices) :
              x.instrument_id # rec.instrument_id /\ x.timestamp = 2

\* C20: the active flag governs the scheduled ingestion: the batch lists
\* exactly the instruments whose flag is true when it starts; a step of the
\* batch asks the provider only for a listed instrument, and adds price rows
\* only for a listed instrument; so an instrument that is inactive during the
\* whole run is not fetched and gains no row.
ActiveFlagGoverns ==
    [][LET listed == {active_instruments'[k].id : k \in 1..Len(active_instruments')}
           gained == {x \in BagToSet(market_prices') :
                        \/ ~BagIn(x, market_prices)
                        \/ CopiesIn(x, market_prices') > CopiesIn(x, market_prices)}
       IN  /\ (pc["tick"] = "idle" /\ pc'["tick"] = "loop")
              => listed = {i.id : i \in {j \in instruments : j.is_active}}
           /\ (pc["tick"] = "lookup" /\ call'["tick"].fetched)
              => /\ call'["tick"].instrument_id \in listed
                 /\ \E k \in 1..Len(active_instruments') :
                       active_instruments'[k].symbol = call'["tick"].symbol
           /\ \A x \in gained : x.instrument_id \in listed]_vars

\* A batch has returned that ingested one instrument, while the other one,
\* inactive and not listed, has no row
ActiveFlagGovernsWitness ==
    /\ Returned
    /\ Len(active_instruments) = 1
    /\ RowCount(active_instruments[1].id) > 0
    /\ \E i \in instruments :
          /\ ~i.is_active
          /\ i.id # active_instruments[1].id
          /\ RowCount(i.id) = 0

\* The rows of the price table that belong to one instrument
PricesOf(instrument_id) ==
    LET keep == {x \in BagToSet(market_prices) : x.instrument_id = instrument_id}
    IN  [x \in keep |-> market_prices[x]]

\* C23: in every reachable state each price row references an instrument that
\* exists, also when an instrument is deleted while an ingestion run for it is
\* in flight; and the step that deletes an instrument removes all of its price
\* rows and leaves the rows of every other instrument as they were.
CascadeDelete ==
    /\ [](\A x \in BagToSet(market_prices) : InstrumentExists(x.instrument_id))
    /\ [][\A i \in instruments :
             (\A j \in instruments' : j.id # i.id) =>
                 /\ PricesOf(i.id)' = EmptyBag
                 /\ \A id \in InstrumentIds \ {i.id} : PricesOf(id)' = PricesOf(id)]_vars

\* An instrument was deleted while a run for it was between its existence
\* check and its commit; the commit was refused, and the prices of the other
\* instrument are in the table
CascadeDeleteWitness ==
    /\ call["caller"].kind = "ingest_by_symbol"
    /\ call["caller"].exc = "IntegrityError"
    /\ call["caller"].session_ok
    /\ Distinct(call["caller"].prices)
    /\ call["caller"].instrument_id # 0
    /\ ~InstrumentExists(call["caller"].instrument_id)
    /\ \E id \in InstrumentIds : InstrumentExists(id) /\ RowCount(id) > 0

\* Rows the running or last batch has added for one instrument
RowsAdded(instrument_id) == RowCount(instrument_id) - rows_before[instrument_id]

RECURSIVE SumOver(_, _)
SumOver(f, S) ==
    IF S = {} THEN 0
    ELSE LET x == CHOOSE y \in S : TRUE IN f[x] + SumOver(f, S \ {x})

\* C30: while the batch is the only writer, the total_inserted that
\* ingest_all_active returns is the number of rows in the table after the
\* batch minus the number before it; for every instrument the rows added are
\* at least 0 and at most the quotes fetched for it; and a symbol counted as
\* failed has added no row.
BatchAccounting ==
    /\ Returned =>
          summary.total_inserted =
             SumOver([id \in 1..MaxInstrumentId |-> RowsAdded(id)], 1..MaxInstrumentId)
    /\ (Returned \/ Aborted) =>
          /\ \A id \in 1..MaxInstrumentId :
                /\ RowsAdded(id) >= 0
                /\ RowsAdded(id) > 0 =>
                      \E k \in 1..Len(outcomes) :
                         /\ outcomes[k].instrument_id = id
                         /\ RowsAdded(id) <= outcomes[k].quotes
          /\ \A k \in 1..Len(outcomes) :
                outcomes[k].outcome = "raised" /\ outcomes[k].instrument_id # 0 =>
                   RowsAdded(outcomes[k].instrument_id) = 0

\* A batch over a table that already held rows has returned: it added rows
\* for one instrument, fewer than the quotes fetched, and counted the other
\* symbol as failed
BatchAccountingWitness ==
    /\ Returned
    /\ summary.failed = 1
    /\ summary.total_inserted > 0
    /\ \E id \in InstrumentIds : rows_before[id] > 0
    /\ \E k \in 1..Len(outcomes) :
          /\ outcomes[k].outcome = "persisted"
          /\ outcomes[k].result < outcomes[k].quotes

\* C21: a price row, once inserted, is never changed: every step of an
\* ingestion run, of a repository call or of the API leaves each stored row
\* with the values it had, as the only row of its key, or removes it together
\* with its instrument; in particular bulk_create_new, given a record of a
\* stored (instrument_id, timestamp) with other values, leaves the stored row
\* as it was.
PriceImmutable ==
    [][\A x \in BagToSet(market_prices) :
          \/ /\ BagIn(x, market_prices')
             /\ CopiesIn(x, market_prices') = CopiesIn(x, market_prices)
             /\ \A y \in BagToSet(market_prices') : SameKey(x, y) => y = x
          \/ /\ \A i \in instruments' : i.id # x.instrument_id
             /\ \A y \in BagToSet(market_prices') : ~SameKey(x, y)]_vars

\* bulk_create_new has returned after it was given a record whose key is
\* stored with other values, and the stored row is still there
PriceImmutableWitness ==
    LET rec == call["caller"]
    IN  /\ rec.kind = "bulk_create_new"
        /\ rec.outcome \in {"nothing_new", "persisted"}
        /\ rec.undisturbed
        /\ \E i \in 1..Len(rec.prices) : \E x \in BagToSet(market_prices) :
              /\ SameKey(rec.prices[i], x)
              /\ x.open # rec.prices[i].open

\* C29: bulk_create_new holds to its single-instrument precondition.  A call
\* on a usable session, with records of pairwise distinct keys whose
\* instruments exist and with nothing deleted meanwhile, either rejects a
\* list that mixes instruments, or treats every record by its own instrument:
\* it does not run into the unique constraint, and when it has returned each
\* record of the list has its row in the table, the one stored before or the
\* one just inserted.
SingleInstrumentBatch ==
    LET rec == call["caller"]
        prices == rec.prices
    IN  ( /\ rec.kind = "bulk_create_new"
          /\ rec.outcome # "none"
          /\ rec.session_ok
          /\ rec.undisturbed
          /\ \A i, j \in 1..Len(prices) : i # j => ~SameKey(prices[i], prices[j])
          /\ \A i \in 1..Len(prices) : InstrumentExists(prices[i].instrument_id) )
        => \/ rec.outcome = "rejected"
           \/ /\ rec.outcome \in {"nothing_new", "persisted"}
              /\ \A i \in 1..Len(prices) :
                    \E x \in BagToSet(market_prices) : SameKey(prices[i], x)

\* The stored prices of an instrument that satisfy each date bound supplied,
\* oldest first
Matching(instrument_id, start_date, end_date) ==
    Ascending({x \in BagToSet(market_prices) :
                 /\ x.instrument_id = instrument_id
                 /\ start_date # 0 => x.timestamp >= start_date
                 /\ end_date # 0 => x.timestamp <= end_date})

\* C27: a successful GET /prices/{instrument_id} with limit L and offset K
\* returns at most L records, and they are the matching result set, in the
\* order it is served in (oldest or newest first), without its first K
\* records, whether both dates, one date or none is supplied.
Pagination ==
    response.route = "get_prices" /\ response.status = 200 =>
        LET a == response.args
            found == Matching(a.instrument_id, a.start_date, a.end_date)
        IN  /\ Len(response.body.prices) <= a.limit
            /\ \/ response.body.prices = Slice(found, a.offset, a.offset + a.limit)
               \/ response.body.prices =
                     Slice(Reverse(found), a.offset, a.offset + a.limit)

\* C28: in a successful GET /prices/{instrument_id} each date bound applies on
\* its own and inclusively: with start_date supplied every returned timestamp
\* is >= start_date, with end_date supplied every one is <= end_date, also
\* when only one of them is given; and a stored price exactly on a supplied
\* bound is not left out of a page that has room for it.
DateBounds ==
    response.route = "get_prices" /\ response.status = 200 =>
        LET a == response.args
            prices == response.body.prices
        IN  /\ a.start_date # 0 =>
                  \A i \in 1..Len(prices) : prices[i].timestamp >= a.start_date
            /\ a.end_date # 0 =>
                  \A i \in 1..Len(prices) : prices[i].timestamp <= a.end_date
            /\ a.offset = 0 /\ Len(prices) < a.limit =>
                  \A x \in BagToSet(market_prices) :
                     ( /\ x.instrument_id = a.instrument_id
                       /\ x.timestamp \in {a.start_date, a.end_date}
                       /\ a.start_date # 0 => x.timestamp >= a.start_date
                       /\ a.end_date # 0 => x.timestamp <= a.end_date )
                     => \E i \in 1..Len(prices) : prices[i].timestamp = x.timestamp

\* C24: no two instruments share a symbol, and a POST /instruments/ of an
\* authenticated client is answered 201 with the instrument created, or 409
\* when the symbol is taken, also when another client creates the same symbol
\* at the same time: never with an unhandled error.
SymbolConflict ==
    /\ \A i, j \in instruments : i.symbol = j.symbol => i = j
    /\ response.route = "create_instrument" =>
          \/ /\ response.status = 201
             /\ response.body.instruments \subseteq instruments
          \/ /\ response.status = 409
             /\ \E i \in instruments : i.symbol = response.args.payload.symbol

\* C25: a PATCH /instruments/{id} that succeeds gives each field named in the
\* body (name, exchange, is_active) the value sent and leaves every other
\* field of the instrument, its id and symbol among them, every other
\* instrument and the prices as they were; a PATCH for an id that does not
\* exist is answered 404, and a PATCH that is not answered 200 changes nothing.
PartialUpdate ==
    [][response' # response /\ response'.route = "update_instrument" =>
          LET a == response'.args
              fs == a.payload.fields_set
              was == {i \in instruments : i.id = a.instrument_id}
              now == {i \in instruments' : i.id = a.instrument_id}
          IN  /\ market_prices' = market_prices
              /\ instruments' \ now = instruments \ was
              /\ response'.status = 404 <=>
                    was = {} /\ get_current_user(response'.token) # ""
              /\ response'.status # 200 => instruments' = instruments
              /\ response'.status = 200 =>
                    \E old \in was : \E new \in now :
                       /\ now = {new}
                       /\ new.id = old.id /\ new.symbol = old.symbol
                       /\ new.instrument_type = old.instrument_type
                       /\ new.name = IF "name" \in fs THEN a.payload.name ELSE old.name
                       /\ new.exchange = IF "exchange" \in fs THEN a.payload.exchange
                                         ELSE old.exchange
                       /\ new.is_active = IF "is_active" \in fs
                                          THEN a.payload.is_active ELSE old.is_active
                       /\ response'.body.instruments = {new}]_vars

\* A PATCH that named only the name was answered 200: the instrument has the
\* new name with its exchange and flag as seeded, next to another instrument
PartialUpdateWitness ==
    /\ response.route = "update_instrument"
    /\ response.status = 200
    /\ response.args.payload.fields_set = {"name"}
    /\ Cardinality(instruments) = 2
    /\ \E i \in instruments :
          /\ i.id = response.args.instrument_id
          /\ i.name = response.args.payload.name
          /\ i.exchange = Seed(1).exchange
          /\ i.is_active

\* A request without bearer credential, or with one that is no JWT, that was
\* not signed with the application's key, or that has expired
Unauthenticated(token) ==
    \/ ~token.bearer
    \/ ~token.wellformed
    \/ token.key # "secret_key"
    \/ token.expired

ApiStep == (response' # response /\ response' # NoReply) \/ requests' # requests

\* C22: ingestion is driven by the schedule only.  No step of an HTTP route
\* (instrument list, create, get, update, delete, the price queries, login,
\* health) starts or advances an ingest_by_symbol or ingest_all_active call
\* or adds a price row; and in a deployment with the scheduler disabled no
\* scheduler and no batch ever runs and no step increases the number of
\* price rows.
ScheduleDrivenOnly ==
    /\ [][ApiStep =>
            /\ pc' = pc
            /\ \A r \in Runners : /\ call'[r].kind = call[r].kind
                                   /\ call'[r].outcome = call[r].outcome
            /\ UNCHANGED <<active_instruments, cursor, total_inserted, summary>>
            /\ BagToSet(market_prices') \subseteq BagToSet(market_prices)
            /\ BagCardinality(market_prices') <= BagCardinality(market_prices)]_vars
    /\ [](~settings.scheduler_enabled =>
            schedulers = {} /\ pc["tick"] = "idle" /\ job_log = "none")
    /\ [][~settings.scheduler_enabled =>
            BagCardinality(market_prices') <= BagCardinality(market_prices)]_vars

\* With the scheduler disabled a client has deactivated the instrument and
\* then read its prices: the rows the table started with, and no more
ScheduleDrivenOnlyWitness ==
    /\ ~settings.scheduler_enabled
    /\ response.route = "get_prices"
    /\ response.status = 200
    /\ response.body.prices # <<>>
    /\ \E i \in instruments : i.id = response.args.instrument_id /\ ~i.is_active

====
